---------------------------- MODULE Spec2Model ----------------------------
(***************************************************************************)
(* Model of the opening-balance adjuster                                   *)
(* (cleaning/adjust_opening_balance.py, class OpeningBalanceAdjuster) and  *)
(* of the identity validator                                               *)
(* (cleaning/financial/financial_validation.py, FinancialDataValidator).   *)
(*                                                                         *)
(* Conventions of the model                                                *)
(*   - Money is an integer number of cents; the code's tolerance 0.01 is   *)
(*     one cent, and "abs(x) > tolerance" is "Abs(x) > tolerance".         *)
(*   - A text cell is a sequence of one-character strings; a blank CSV     *)
(*     cell (pandas NaN) is the value NaN, and str() is PyStr.             *)
(*   - A balance row is a record: the derived column year ("年份"), the    *)
(*     account name, the account code ("科目编码"), subject_code_path and  *)
(*     the six amounts opening/period/closing x debit/credit.             *)
(***************************************************************************)
EXTENDS Integers, Sequences, FiniteSets, TLC

VARIABLES
    \* ---- OpeningBalanceAdjuster.run_adjustment ----
    disk,              \* content of final_enhanced_balance.csv
    disk0,             \* its content before the run (history variable)
    backup,            \* content of the backup file, NoFile when absent
    balance_df,        \* self.balance_df, NoDf while None
    pc,                \* position inside run_adjustment
    adjustments_made,  \* value returned by adjust_opening_balances
    verification,      \* value returned by verify_adjustments
    report,            \* whether the adjustment report file was written
    result,            \* value returned by run_adjustment
    trace,             \* the file and table operations run so far, in order
    \* ---- FinancialDataValidator ----
    v_df,              \* the validator's self.balance_df
    v_pc,              \* position of the validator
    v_results,         \* validation_results['accounting_equation']
    \* ---- classifier applications ----
    c_code, c_path, c_solver, c_validator,
    \* ---- balance arithmetic applications ----
    a_row, a_calc, a_verify, a_validate, a_again,
    \* ---- FinancialDataValidator: hierarchy, year continuity, vouchers ----
    h_pc,              \* position of validate_hierarchy_correctness
    h_trees,           \* the trees _build_subject_tree returned, per group
    h_results,         \* validation_results['hierarchy_correctness']
    y_pc,              \* position of validate_year_continuity
    y_order,           \* the groups as sort_values('年份') ordered them
    y_results,         \* validation_results['year_continuity']
    k_file,            \* content of final_voucher_detail.csv
    k_vouchers,        \* the validator's self.voucher_df
    k_pc,              \* position of validate_voucher_reconciliation
    k_results,         \* validation_results['voucher_reconciliation']
    \* ---- FinancialDataValidator.run_all_validations ----
    r_pc,              \* "idle", "returned" or "raised"
    r_calls,           \* the validations called, in the order of the calls
    r_raised,          \* the validations that raised (history variable)
    r_overall,         \* the overall_results it returned
    \* ---- the query server (financial_data_mcp) ----
    m_files,           \* the balance and voucher files on disk
    m_balance_df,      \* the module's cached balance_df
    m_voucher_df,      \* the module's cached voucher_df
    m_request,         \* the last tool call: name and arguments
    m_response,        \* what handle_call_tool did with it
    m_reads,           \* the files load_data read for it (history variable)
    m_failed           \* whether an earlier call ended in the except clause

vars == <<disk, disk0, backup, balance_df, pc, adjustments_made, verification,
          report, result, trace, v_df, v_pc, v_results,
          c_code, c_path, c_solver, c_validator,
          a_row, a_calc, a_verify, a_validate, a_again,
          h_pc, h_trees, h_results, y_pc, y_order, y_results,
          k_file, k_vouchers, k_pc, k_results,
          r_pc, r_calls, r_raised, r_overall,
          m_files, m_balance_df, m_voucher_df, m_request, m_response,
          m_reads, m_failed>>

runVars == <<disk, disk0, backup, balance_df, pc, adjustments_made,
             verification, report, result, trace>>
valVars == <<v_df, v_pc, v_results>>
clsVars == <<c_code, c_path, c_solver, c_validator>>
arVars  == <<a_row, a_calc, a_verify, a_validate, a_again>>
hVars   == <<h_pc, h_trees, h_results>>
yVars   == <<y_pc, y_order, y_results>>
kVars   == <<k_file, k_vouchers, k_pc, k_results>>
rVars   == <<r_pc, r_calls, r_raised, r_overall>>
mVars   == <<m_files, m_balance_df, m_voucher_df, m_request, m_response,
             m_reads, m_failed>>
sVars   == <<rVars, mVars>>
xVars   == <<hVars, yVars, kVars, sVars>>

-----------------------------------------------------------------------------
(* Text cells                                                              *)

\* pandas' NaN for a blank cell: a token that is no character sequence
NaN == <<"NaN">>

\* str(x): a NaN cell prints as the three characters n, a, n
PyStr(x) == IF x = NaN THEN <<"n", "a", "n">> ELSE x

\* s.startswith(ch) for a one-character ch
StartsWith(s, ch) == Len(s) >= 1 /\ s[1] = ch

\* s.split(sep): the segments between the separators, empty ones included
RECURSIVE PySplit(_, _)
PySplit(s, sep) ==
    IF \A i \in 1..Len(s) : s[i] # sep
    THEN <<s>>
    ELSE LET k == CHOOSE i \in 1..Len(s) :
                      s[i] = sep /\ \A j \in 1..(i-1) : s[j] # sep
         IN  <<SubSeq(s, 1, k-1)>> \o PySplit(SubSeq(s, k+1, Len(s)), sep)

\* [part for part in parts if part]
NonEmptyParts(parts) == SelectSeq(parts, LAMBDA p : p # <<>>)

-----------------------------------------------------------------------------
(* AccountClassifier                                                       *)

\* the first-character chain shared by both classifiers; "none" when no
\* branch of the if/elif chain is taken
DigitClass(code) ==
    IF StartsWith(code, "1") THEN "asset"
    ELSE IF StartsWith(code, "2") THEN "liability"
    ELSE IF StartsWith(code, "3") THEN "equity"
    ELSE IF StartsWith(code, "4") THEN "income"
    ELSE IF StartsWith(code, "5") \/ StartsWith(code, "6") THEN "expense"
    ELSE "none"

\* OpeningBalanceAdjuster._get_account_type, second half: the path
PathClass(subject_code_path) ==
    LET p == PyStr(subject_code_path) IN
    IF p # <<"n", "a", "n">> /\ p # <<>>
    THEN LET path_parts == NonEmptyParts(PySplit(p, "/")) IN
         IF path_parts # <<>> THEN DigitClass(path_parts[1]) ELSE "none"
    ELSE "none"

\* a plausible slip: the path taken as the primary source
solver_type_path_first(code, path) ==
    IF PathClass(path) # "none" THEN PathClass(path)
    ELSE LET s == PyStr(code) IN
         IF s # <<"n", "a", "n">> /\ s # <<>> /\ DigitClass(PySplit(s, ".")[1]) # "none"
         THEN DigitClass(PySplit(s, ".")[1])
         ELSE "unknown"

\* OpeningBalanceAdjuster._get_account_type(row): the code's chain has no
\* else, so a non-blank code that matches no digit falls through to the path
solver_get_account_type(code, path) ==
    LET subject_code == PyStr(code)
        fromCode == IF subject_code # <<"n", "a", "n">> /\ subject_code # <<>>
                    THEN DigitClass(PySplit(subject_code, ".")[1])
                    ELSE "none"
    IN  IF fromCode # "none" THEN fromCode
        ELSE IF PathClass(path) # "none" THEN PathClass(path)
        ELSE "unknown"

\* FinancialDataValidator._get_account_type(subject_code): the code only
validator_get_account_type(code) ==
    LET c == DigitClass(PySplit(PyStr(code), ".")[1])
    IN  IF c # "none" THEN c ELSE "unknown"


-----------------------------------------------------------------------------
(* BalanceArithmetic as the three places of the code compute it            *)

\* tolerance = 0.01, in cents
tolerance == 1

\* target_years = [2024, 2025]
target_years == {2024, 2025}

\* the account name of a grand-total row, '合计' in the data
GrandTotal == "heji"

Abs(x) == IF x < 0 THEN -x ELSE x

\* a plausible slip: the income branch taken on the debit side
calc_nets_income_debit(account_type, row) ==
    IF account_type \in {"liability", "equity"}
    THEN LET closing_net == row.closing_credit - row.closing_debit
             period_net == row.period_credit - row.period_debit
         IN  [closing_net |-> closing_net, period_net |-> period_net,
              opening_net |-> closing_net - period_net]
    ELSE LET closing_net == row.closing_debit - row.closing_credit
             period_net == row.period_debit - row.period_credit
         IN  [closing_net |-> closing_net, period_net |-> period_net,
              opening_net |-> closing_net - period_net]

\* _calculate_opening_balance, first half: closing_net, period_net and
\* opening_net = closing_net - period_net, branch by branch
calc_nets(account_type, row) ==
    IF account_type = "asset"
    THEN LET closing_net == row.closing_debit - row.closing_credit
             period_net == row.period_debit - row.period_credit
         IN  [closing_net |-> closing_net, period_net |-> period_net,
              opening_net |-> closing_net - period_net]
    ELSE IF account_type \in {"liability", "equity"}
    THEN LET closing_net == row.closing_credit - row.closing_debit
             period_net == row.period_credit - row.period_debit
         IN  [closing_net |-> closing_net, period_net |-> period_net,
              opening_net |-> closing_net - period_net]
    ELSE IF account_type = "income"
    THEN LET closing_net == row.closing_credit - row.closing_debit
             period_net == row.period_credit - row.period_debit
         IN  [closing_net |-> closing_net, period_net |-> period_net,
              opening_net |-> closing_net - period_net]
    ELSE IF account_type = "expense"
    THEN LET closing_net == row.closing_debit - row.closing_credit
             period_net == row.period_debit - row.period_credit
         IN  [closing_net |-> closing_net, period_net |-> period_net,
              opening_net |-> closing_net - period_net]
    ELSE LET closing_net == row.closing_debit - row.closing_credit
             period_net == row.period_debit - row.period_credit
         IN  [closing_net |-> closing_net, period_net |-> period_net,
              opening_net |-> closing_net - period_net]

\* a plausible slip: a negative net left on the normal side with its sign
split_opening_net_no_flip(account_type, opening_net, row) ==
    IF account_type \in {"asset", "expense"}
    THEN IF opening_net >= 0 THEN <<opening_net, 0>> ELSE <<0, opening_net>>
    ELSE IF account_type \in {"liability", "equity", "income"}
    THEN IF opening_net >= 0 THEN <<0, opening_net>> ELSE <<opening_net, 0>>
    ELSE <<row.opening_debit, row.opening_credit>>

\* a plausible slip: an income row split like a debit-normal one
split_opening_net_income_debit(account_type, opening_net, row) ==
    IF account_type \in {"asset", "expense", "income"}
    THEN IF opening_net >= 0 THEN <<opening_net, 0>> ELSE <<0, -opening_net>>
    ELSE IF account_type \in {"liability", "equity"}
    THEN IF opening_net >= 0 THEN <<0, opening_net>> ELSE <<-opening_net, 0>>
    ELSE <<row.opening_debit, row.opening_credit>>

\* a plausible slip: an unknown row split like a debit-normal one
split_opening_net_unknown_as_debit(account_type, opening_net, row) ==
    IF account_type \in {"liability", "equity", "income"}
    THEN IF opening_net >= 0 THEN <<0, opening_net>> ELSE <<-opening_net, 0>>
    ELSE IF opening_net >= 0 THEN <<opening_net, 0>> ELSE <<0, -opening_net>>

\* _calculate_opening_balance, second half: the signed net split into
\* (opening_debit, opening_credit); an unknown type keeps the stored pair
split_opening_net(account_type, opening_net, row) ==
    IF account_type = "asset"
    THEN IF opening_net >= 0 THEN <<opening_net, 0>> ELSE <<0, -opening_net>>
    ELSE IF account_type \in {"liability", "equity"}
    THEN IF opening_net >= 0 THEN <<0, opening_net>> ELSE <<-opening_net, 0>>
    ELSE IF account_type = "income"
    THEN IF opening_net >= 0 THEN <<0, opening_net>> ELSE <<-opening_net, 0>>
    ELSE IF account_type = "expense"
    THEN IF opening_net >= 0 THEN <<opening_net, 0>> ELSE <<0, -opening_net>>
    ELSE <<row.opening_debit, row.opening_credit>>

\* OpeningBalanceAdjuster._calculate_opening_balance(row)
calculate_opening_balance(row) ==
    LET account_type == solver_get_account_type(row.code, row.path)
    IN  split_opening_net(account_type,
                          calc_nets(account_type, row).opening_net, row)

\* a plausible slip: the opening net of a liability taken on the debit side
verify_nets_mixed_sides(account_type, row) ==
    IF account_type \in {"asset", "expense", "liability"}
    THEN [opening_net |-> row.opening_debit - row.opening_credit,
          period_net  |-> IF account_type = "liability"
                          THEN row.period_credit - row.period_debit
                          ELSE row.period_debit - row.period_credit,
          closing_net |-> IF account_type = "liability"
                          THEN row.closing_credit - row.closing_debit
                          ELSE row.closing_debit - row.closing_credit]
    ELSE [opening_net |-> row.opening_credit - row.opening_debit,
          period_net  |-> row.period_credit - row.period_debit,
          closing_net |-> row.closing_credit - row.closing_debit]

\* verify_adjustments, the nets of one row of a known type (the chain has
\* no branch for an unknown type: see verify_loop)
verify_nets(account_type, row) ==
    IF account_type = "asset"
    THEN [opening_net |-> row.opening_debit - row.opening_credit,
          period_net  |-> row.period_debit - row.period_credit,
          closing_net |-> row.closing_debit - row.closing_credit]
    ELSE IF account_type \in {"liability", "equity"}
    THEN [opening_net |-> row.opening_credit - row.opening_debit,
          period_net  |-> row.period_credit - row.period_debit,
          closing_net |-> row.closing_credit - row.closing_debit]
    ELSE IF account_type = "income"
    THEN [opening_net |-> row.opening_credit - row.opening_debit,
          period_net  |-> row.period_credit - row.period_debit,
          closing_net |-> row.closing_credit - row.closing_debit]
    ELSE [opening_net |-> row.opening_debit - row.opening_credit,
          period_net  |-> row.period_debit - row.period_credit,
          closing_net |-> row.closing_debit - row.closing_credit]

\* a plausible slip: the expense branch of the validator on the credit side
validator_nets_expense_credit(account_type, row) ==
    IF account_type = "asset"
    THEN [opening_net |-> row.opening_debit - row.opening_credit,
          period_net  |-> row.period_debit - row.period_credit,
          closing_net |-> row.closing_debit - row.closing_credit]
    ELSE [opening_net |-> row.opening_credit - row.opening_debit,
          period_net  |-> row.period_debit - row.period_credit,
          closing_net |-> row.closing_credit - row.closing_debit]

\* validate_accounting_equation, the nets of one row of a known type
validator_nets(account_type, row) ==
    IF account_type = "asset"
    THEN [opening_net |-> row.opening_debit - row.opening_credit,
          period_net  |-> row.period_debit - row.period_credit,
          closing_net |-> row.closing_debit - row.closing_credit]
    ELSE IF account_type \in {"liability", "equity"}
    THEN [opening_net |-> row.opening_credit - row.opening_debit,
          period_net  |-> row.period_credit - row.period_debit,
          closing_net |-> row.closing_credit - row.closing_debit]
    ELSE IF account_type = "income"
    THEN [opening_net |-> row.opening_credit - row.opening_debit,
          period_net  |-> row.period_credit - row.period_debit,
          closing_net |-> row.closing_credit - row.closing_debit]
    ELSE [opening_net |-> row.opening_debit - row.opening_credit,
          period_net  |-> row.period_debit - row.period_credit,
          closing_net |-> row.closing_debit - row.closing_credit]

-----------------------------------------------------------------------------
(* OpeningBalanceAdjuster: the passes over the table                       *)

NoDf == <<"None">>
NoFile == <<"absent">>
Unbound == [unbound |-> TRUE]

\* a plausible slip: only the debit side compared
needs_adjustment_debit_only(new, row) ==
    Abs(new[1] - row.opening_debit) > tolerance

\* a plausible slip: the comparison made with >= instead of >
needs_adjustment_at_tolerance(new, row) ==
    \/ Abs(new[1] - row.opening_debit) >= tolerance
    \/ Abs(new[2] - row.opening_credit) >= tolerance

\* needs_adjustment of adjust_opening_balances
needs_adjustment(new, row) ==
    \/ Abs(new[1] - row.opening_debit) > tolerance
    \/ Abs(new[2] - row.opening_credit) > tolerance

\* a plausible slip: the grand-total row not skipped
row_is_adjusted_with_totals(row) ==
    /\ row.year \in target_years
    /\ needs_adjustment(calculate_opening_balance(row), row)

\* whether the loop of adjust_opening_balances rewrites this row
row_is_adjusted(row) ==
    /\ row.year \in target_years
    /\ row.name # GrandTotal
    /\ needs_adjustment(calculate_opening_balance(row), row)

\* the body of the loop of adjust_opening_balances for one row
\* the update with the two sides exchanged: the derived debit is stored in
\* the credit column and the derived credit in the debit column
adjust_row_sides_exchanged(row) ==
    IF row_is_adjusted(row)
    THEN LET new == calculate_opening_balance(row)
         IN  [row EXCEPT !.opening_debit = new[2], !.opening_credit = new[1]]
    ELSE row

adjust_row(row) ==
    IF row_is_adjusted(row)
    THEN LET new == calculate_opening_balance(row)
         IN  [row EXCEPT !.opening_debit = new[1], !.opening_credit = new[2]]
    ELSE row

\* adjust_opening_balances: the table after the loop and the count returned
adjust_opening_balances(df) ==
    [df |-> [i \in 1..Len(df) |-> adjust_row(df[i])],
     adjustments_made |-> Cardinality({i \in 1..Len(df) : row_is_adjusted(df[i])})]

\* one iteration of the loop of verify_adjustments. opening_net, period_net
\* and closing_net are function locals: a row of unknown type assigns none
\* of them, so it reads the values the previous in-scope row left, and the
\* read raises (UnboundLocalError) when no row assigned them before.
verify_step(acc, row) ==
    IF acc.raised \/ row.year \notin target_years THEN acc
    ELSE LET account_type == solver_get_account_type(row.code, row.path)
             locals == IF account_type = "unknown" THEN acc.locals
                       ELSE verify_nets(account_type, row)
         IN  IF locals = Unbound
             THEN [acc EXCEPT !.raised = TRUE]
             ELSE IF Abs(locals.closing_net
                         - (locals.opening_net + locals.period_net)) > tolerance
                  THEN [acc EXCEPT !.failed = @ + 1, !.locals = locals]
                  ELSE [acc EXCEPT !.passed = @ + 1, !.locals = locals]

RECURSIVE verify_loop(_, _, _)
verify_loop(df, i, acc) ==
    IF i > Len(df) THEN acc ELSE verify_loop(df, i + 1, verify_step(acc, df[i]))

\* verify_adjustments(): passed and failed counts, or raised
verify_adjustments(df) ==
    verify_loop(df, 1, [passed |-> 0, failed |-> 0, locals |-> Unbound,
                        raised |-> FALSE])

-----------------------------------------------------------------------------
(* The tables the runs start from                                          *)

\* bound: the six amounts of a generated row sum to at most this many cents
MaxRowTotal == 3

Years == {2023, 2024}

Txt1001 == <<"1", "0", "0", "1">>
Txt2202_01 == <<"2", "2", "0", "2", ".", "0", "1">>
Txt3001 == <<"3", "0", "0", "1">>
Txt4001 == <<"4", "0", "0", "1">>
Txt6601 == <<"6", "6", "0", "1">>
Txt9999 == <<"9", "9", "9", "9">>
Path1001 == <<"/", "1", "0", "0", "1", "/">>
Path2202 == <<"/", "2", "2", "0", "2", "/">>

\* (account name, account code, subject_code_path) of the generated rows
RowKinds ==
    { <<"cash", Txt1001, Path1001>>,
      <<"payable", Txt2202_01, Path2202>>,
      <<"capital", Txt3001, NaN>>,
      <<"revenue", Txt4001, NaN>>,
      <<"expense", Txt6601, NaN>>,
      <<"other", Txt9999, NaN>>,
      <<"other", Txt9999, Path2202>>,
      <<"dimension", NaN, Path1001>>,
      <<GrandTotal, NaN, NaN>>,
      <<GrandTotal, Txt1001, Path1001>> }

Amounts ==
    { a \in [1..6 -> 0..MaxRowTotal] :
        a[1] + a[2] + a[3] + a[4] + a[5] + a[6] <= MaxRowTotal }

MkRow(year, kind, a) ==
    [year |-> year, name |-> kind[1], code |-> kind[2], path |-> kind[3],
     opening_debit |-> a[1], opening_credit |-> a[2],
     period_debit |-> a[3], period_credit |-> a[4],
     closing_debit |-> a[5], closing_credit |-> a[6]]

Rows == { MkRow(y, k, a) : y \in Years, k \in RowKinds, a \in Amounts }

\* the second row of a table: one representative of each situation
Companions ==
    { MkRow(2024, <<"cash", Txt1001, Path1001>>, <<1, 0, 1, 0, 2, 0>>),
      MkRow(2023, <<"cash", Txt1001, Path1001>>, <<0, 0, 0, 0, 2, 0>>),
      MkRow(2024, <<"payable", Txt2202_01, Path2202>>, <<0, 0, 0, 0, 0, 2>>),
      MkRow(2024, <<GrandTotal, NaN, NaN>>, <<0, 0, 0, 0, 2, 0>>),
      MkRow(2024, <<"other", Txt9999, NaN>>, <<0, 0, 0, 0, 2, 0>>) }

\* a table holds two rows: any generated row and a companion, in either order
Tables ==
    { <<r, c>> : r \in Rows, c \in Companions }
        \cup { <<c, r>> : r \in Rows, c \in Companions }

-----------------------------------------------------------------------------
(* OpeningBalanceAdjuster.run_adjustment                                   *)

NoVerification == [passed |-> 0, failed |-> 0, locals |-> Unbound, raised |-> FALSE]

InitIdleValidator == v_df = NoDf /\ v_pc = "idle" /\ v_results = <<>>
InitIdleClassifier ==
    c_code = NaN /\ c_path = NaN /\ c_solver = "none" /\ c_validator = "none"
InitIdleArithmetic ==
    a_row = <<>> /\ a_calc = <<>> /\ a_verify = <<>> /\ a_validate = <<>>
    /\ a_again = <<>>
InitIdleHierarchy ==
    h_pc = "idle" /\ h_trees = <<>> /\ h_results = <<>>
InitIdleContinuity ==
    y_pc = "idle" /\ y_order = <<>> /\ y_results = <<>>
InitIdleVoucher ==
    k_file = <<>> /\ k_vouchers = NoDf /\ k_pc = "idle" /\ k_results = <<>>
InitIdleRunAll ==
    r_pc = "idle" /\ r_calls = <<>> /\ r_raised = {} /\ r_overall = <<>>
\* a file that does not exist, a cached table that is still None, an
\* argument the caller did not give, and the server before its first call
AbsentFile == [exists |-> FALSE, rows |-> <<>>]
NotCached == [loaded |-> FALSE, rows |-> <<>>]
NoArg == <<"NoArg">>
NoRequest ==
    [name |-> "none",
     arguments |-> [subject_code |-> NoArg, company |-> "", year |-> 0]]
NoResponse == [returned |-> TRUE, kind |-> "none", exception |-> "none"]

InitIdleServer ==
    /\ m_files = [balance |-> AbsentFile, voucher |-> AbsentFile]
    /\ m_balance_df = NotCached
    /\ m_voucher_df = NotCached
    /\ m_request = NoRequest /\ m_response = NoResponse /\ m_reads = {}
    /\ m_failed = FALSE
InitIdleChecks ==
    /\ InitIdleHierarchy /\ InitIdleContinuity /\ InitIdleVoucher
    /\ InitIdleRunAll /\ InitIdleServer

Init ==
    /\ disk \in Tables
    /\ disk0 = disk
    /\ backup = NoFile
    /\ balance_df = NoDf
    /\ pc = "start"
    /\ adjustments_made = 0
    /\ verification = NoVerification
    /\ report = FALSE
    /\ result = "none"
    /\ trace = <<>>
    /\ InitIdleValidator /\ InitIdleClassifier /\ InitIdleArithmetic /\ InitIdleChecks

\* load_data: shutil.copy2 makes the backup, read_csv assigns balance_df,
\* _preprocess_data coerces the amounts and derives the year. Each of the
\* three may raise; run_adjustment's except clause then returns False.
LoadData ==
    /\ pc = "start"
    /\ \E outcome \in {"ok", "copy_raises", "read_raises", "preprocess_raises"} :
        /\ backup' = IF outcome = "copy_raises" THEN backup ELSE disk
        /\ balance_df' = IF outcome \in {"ok", "preprocess_raises"}
                         THEN disk ELSE balance_df
        /\ pc' = IF outcome = "ok" THEN "loaded" ELSE "done"
        /\ result' = IF outcome = "ok" THEN result ELSE "false"
        /\ trace' = CASE outcome = "copy_raises" -> trace
                      [] outcome = "read_raises" -> trace \o <<"backup">>
                      [] OTHER -> trace \o <<"backup", "read_csv">>
    /\ UNCHANGED <<disk, disk0, adjustments_made, verification, report>>
    /\ UNCHANGED <<valVars, clsVars, arVars, xVars>>

\* adjust_opening_balances, and run_adjustment's "return True" when it
\* reports no adjustment
AdjustOpeningBalances ==
    /\ pc = "loaded"
    /\ LET out == adjust_opening_balances(balance_df) IN
        /\ balance_df' = out.df
        /\ adjustments_made' = out.adjustments_made
        /\ pc' = IF out.adjustments_made = 0 THEN "done" ELSE "adjusted"
        /\ result' = IF out.adjustments_made = 0 THEN "true" ELSE result
    /\ trace' = Append(trace, "adjust")
    /\ UNCHANGED <<disk, disk0, backup, verification, report>>
    /\ UNCHANGED <<valVars, clsVars, arVars, xVars>>

\* run_adjustment without the "failed > 0" return: a run whose
\* verification counted failures goes on to save
VerifyAdjustmentsIgnoringFailures ==
    /\ pc = "adjusted"
    /\ LET v == verify_adjustments(balance_df) IN
        /\ verification' = v
        /\ pc' = IF v.raised THEN "done" ELSE "verified"
        /\ result' = IF v.raised THEN "false" ELSE result
    /\ trace' = Append(trace, "verify")
    /\ UNCHANGED <<disk, disk0, backup, balance_df, adjustments_made, report>>
    /\ UNCHANGED <<valVars, clsVars, arVars, xVars>>

\* verify_adjustments, and run_adjustment's "return False" when a row
\* failed or the call raised
VerifyAdjustments ==
    /\ pc = "adjusted"
    /\ LET v == verify_adjustments(balance_df) IN
        /\ verification' = v
        /\ pc' = IF v.raised \/ v.failed > 0 THEN "done" ELSE "verified"
        /\ result' = IF v.raised \/ v.failed > 0 THEN "false" ELSE result
    /\ trace' = Append(trace, "verify")
    /\ UNCHANGED <<disk, disk0, backup, balance_df, adjustments_made, report>>
    /\ UNCHANGED <<valVars, clsVars, arVars, xVars>>

\* save_adjusted_data: to_csv overwrites the file, then the report is
\* written. to_csv may raise before it opens the file or after it wrote
\* the first rows; writing the report may raise after the file was
\* overwritten. A raise makes run_adjustment return False.
SaveAdjustedData ==
    /\ pc = "verified"
    /\ \E outcome \in {"ok", "csv_raises", "report_raises"} :
       \E written \in 0..Len(balance_df) :
        /\ disk' = IF outcome = "csv_raises"
                   THEN IF written = Len(balance_df) THEN disk
                        ELSE SubSeq(balance_df, 1, written)
                   ELSE balance_df
        /\ report' = (outcome = "ok")
        /\ result' = IF outcome = "ok" THEN "true" ELSE "false"
        /\ trace' = CASE outcome = "ok" -> trace \o <<"to_csv", "report">>
                      [] outcome = "csv_raises" /\ written = Len(balance_df) -> trace
                      [] OTHER -> trace \o <<"to_csv">>
    /\ pc' = "done"
    /\ UNCHANGED <<disk0, backup, balance_df, adjustments_made, verification>>
    /\ UNCHANGED <<valVars, clsVars, arVars, xVars>>

Next == LoadData \/ AdjustOpeningBalances \/ VerifyAdjustments \/ SaveAdjustedData

Spec == Init /\ [][Next]_vars

-----------------------------------------------------------------------------
(* Claims about run_adjustment                                             *)

\* the identity of one row, nets on the row's normal side (debit for an
\* asset, expense or unknown row, credit for the others)
NormalSideNets(row) ==
    verify_nets(solver_get_account_type(row.code, row.path), row)

SatisfiesIdentity(row) ==
    LET n == NormalSideNets(row)
    IN  Abs(n.closing_net - (n.opening_net + n.period_net)) <= tolerance

InScope(row) == row.year \in target_years

\* C1 (as claimed): when run_adjustment has returned, either every stored
\* row of a target year satisfies |closingNet - (openingNet + periodNet)|
\* <= 0.01, or the run returned False and the stored table is the pre-run
\* table.
C1_SuccessImpliesIdentity ==
    pc = "done" =>
        \/ \A i \in 1..Len(disk) : InScope(disk[i]) => SatisfiesIdentity(disk[i])
        \/ result = "false" /\ disk = disk0

\* C2 (as claimed): whenever run_adjustment returns False, the balance file
\* holds exactly its pre-run content.
C2_FailureLeavesFileUntouched ==
    (pc = "done" /\ result = "false") => disk = disk0

-----------------------------------------------------------------------------
(* The classifiers applied to generated cells                              *)

\* bound: the longest generated text cell
MaxTextLen == 2

CodeAlphabet == {"1", "2", "3", "4", "5", "6", "9", ".", "/"}
PathAlphabet == {"2", "9", "/"}

Texts(alphabet, n) == UNION { [1..k -> alphabet] : k \in 0..n }

LiteralNan == <<"n", "a", "n">>

CodeCells ==
    Texts(CodeAlphabet, MaxTextLen)
        \cup {NaN, LiteralNan, Txt1001, Txt2202_01, Txt6601, Txt9999}

PathCells ==
    Texts(PathAlphabet, MaxTextLen)
        \cup {NaN, LiteralNan, Path1001, Path2202, <<"/", "/", "3", "/">>,
              <<"/", "4", "0", "0", "1", "/">>, <<"5", "/">>, <<"/", "6">>,
              <<"/", ".", "1", "/">>}

InitIdleRun ==
    /\ disk = <<>> /\ disk0 = <<>> /\ backup = NoFile /\ balance_df = NoDf
    /\ pc = "idle" /\ adjustments_made = 0 /\ verification = NoVerification
    /\ report = FALSE /\ result = "none" /\ trace = <<>>

InitClassify ==
    /\ c_code \in CodeCells
    /\ c_path \in PathCells
    /\ c_solver = "none"
    /\ c_validator = "none"
    /\ InitIdleRun /\ InitIdleValidator /\ InitIdleArithmetic /\ InitIdleChecks

\* OpeningBalanceAdjuster._get_account_type applied to (code, path)
SolverClassify ==
    /\ c_solver = "none"
    /\ c_solver' = solver_get_account_type(c_code, c_path)
    /\ UNCHANGED <<c_code, c_path, c_validator, runVars, valVars, arVars, xVars>>

\* FinancialDataValidator._get_account_type applied to the code
ValidatorClassify ==
    /\ c_validator = "none"
    /\ c_validator' = validator_get_account_type(c_code)
    /\ UNCHANGED <<c_code, c_path, c_solver, runVars, valVars, arVars, xVars>>

NextClassify == SolverClassify \/ ValidatorClassify

SpecClassify == InitClassify /\ [][NextClassify]_vars

\* the classification as the claims state it
Blank(cell) == PyStr(cell) = LiteralNan \/ PyStr(cell) = <<>>

ByFirstChar(segment) ==
    IF segment = <<>> THEN "unknown"
    ELSE CASE segment[1] = "1" -> "asset"
           [] segment[1] = "2" -> "liability"
           [] segment[1] = "3" -> "equity"
           [] segment[1] = "4" -> "income"
           [] segment[1] \in {"5", "6"} -> "expense"
           [] OTHER -> "unknown"

ClaimedType(code, path) ==
    IF ~Blank(code) THEN ByFirstChar(PySplit(code, ".")[1])
    ELSE IF Blank(path) \/ NonEmptyParts(PySplit(path, "/")) = <<>> THEN "unknown"
    ELSE ByFirstChar(NonEmptyParts(PySplit(path, "/"))[1])

\* C3 (as claimed): both classifiers return the class of the first character
\* of the leading dot-segment of a non-blank code, or else of the first
\* non-empty slash-segment of the path, and unknown in every other case.
C3_ClassificationAsSpecified ==
    /\ c_solver # "none" => c_solver = ClaimedType(c_code, c_path)
    /\ c_validator # "none" => c_validator = ClaimedType(c_code, c_path)

\* C4 (as claimed): the solver's classifier classifies a non-blank code from
\* the code alone, so a non-blank code whose leading character is not 1-6 is
\* unknown whatever the path holds.
C4_PathOnlyWhenCodeBlank ==
    (c_solver # "none" /\ ~Blank(c_code)) =>
        c_solver = ByFirstChar(PySplit(c_code, ".")[1])

-----------------------------------------------------------------------------
(* BalanceArithmetic applied to one generated row                          *)

InitArith ==
    /\ a_row \in Rows
    /\ a_calc = <<>> /\ a_verify = <<>> /\ a_validate = <<>> /\ a_again = <<>>
    /\ InitIdleRun /\ InitIdleValidator /\ InitIdleClassifier /\ InitIdleChecks

\* _calculate_opening_balance(row): the type, the nets and the pair returned
CalculateOpeningBalance ==
    /\ a_calc = <<>>
    /\ LET account_type == solver_get_account_type(a_row.code, a_row.path) IN
       a_calc' = [account_type |-> account_type,
                  nets |-> calc_nets(account_type, a_row),
                  pair |-> calculate_opening_balance(a_row)]
    /\ UNCHANGED <<a_row, a_verify, a_validate, a_again, runVars, valVars, clsVars, xVars>>

\* the nets verify_adjustments computes for the row (a known type only:
\* for an unknown one it computes none)
VerifyRow ==
    /\ a_verify = <<>>
    /\ solver_get_account_type(a_row.code, a_row.path) # "unknown"
    /\ LET account_type == solver_get_account_type(a_row.code, a_row.path) IN
       a_verify' = [account_type |-> account_type,
                    nets |-> verify_nets(account_type, a_row)]
    /\ UNCHANGED <<a_row, a_calc, a_validate, a_again, runVars, valVars, clsVars, xVars>>

\* the nets validate_accounting_equation computes for the row (it skips a
\* row of unknown type)
ValidateRow ==
    /\ a_validate = <<>>
    /\ validator_get_account_type(a_row.code) # "unknown"
    /\ LET account_type == validator_get_account_type(a_row.code) IN
       a_validate' = [account_type |-> account_type,
                      nets |-> validator_nets(account_type, a_row)]
    /\ UNCHANGED <<a_row, a_calc, a_verify, a_again, runVars, valVars, clsVars, xVars>>

\* the pair written back, read as verify_adjustments reads an opening pair,
\* and split again
SplitAgain ==
    /\ a_calc # <<>>
    /\ a_calc.account_type # "unknown"
    /\ a_again = <<>>
    /\ LET stored == [a_row EXCEPT !.opening_debit = a_calc.pair[1],
                                   !.opening_credit = a_calc.pair[2]]
           net == verify_nets(a_calc.account_type, stored).opening_net
       IN  a_again' = split_opening_net(a_calc.account_type, net, stored)
    /\ UNCHANGED <<a_row, a_calc, a_verify, a_validate, runVars, valVars, clsVars, xVars>>

NextArith == CalculateOpeningBalance \/ VerifyRow \/ ValidateRow \/ SplitAgain

SpecArith == InitArith /\ [][NextArith]_vars

\* the arithmetic as the claims state it
DebitNormal == {"asset", "expense"}
CreditNormal == {"liability", "equity", "income"}
Known == DebitNormal \cup CreditNormal

NetOn(account_type, debit, credit) ==
    IF account_type \in DebitNormal THEN debit - credit ELSE credit - debit

Max(a, b) == IF a >= b THEN a ELSE b

ClaimedPair(account_type, n) ==
    IF account_type \in DebitNormal THEN <<Max(n, 0), Max(-n, 0)>>
    ELSE <<Max(-n, 0), Max(n, 0)>>

OnNormalSide(rec, row, withOpening) ==
    /\ rec.nets.period_net
         = NetOn(rec.account_type, row.period_debit, row.period_credit)
    /\ rec.nets.closing_net
         = NetOn(rec.account_type, row.closing_debit, row.closing_credit)
    /\ withOpening =>
         rec.nets.opening_net
           = NetOn(rec.account_type, row.opening_debit, row.opening_credit)

\* C5: for a row of a known type the solver's derivation, the solver's
\* post-check and the identity validator each take all their nets on one
\* side, debit for asset and expense, credit for liability, equity and
\* income, and any two of them that compute a net for the row agree on it.
C5_NetsOnTheNormalSide ==
    /\ (a_calc # <<>> /\ a_calc.account_type \in Known) =>
          /\ OnNormalSide(a_calc, a_row, FALSE)
          /\ a_calc.nets.opening_net
               = a_calc.nets.closing_net - a_calc.nets.period_net
    /\ a_verify # <<>> => OnNormalSide(a_verify, a_row, TRUE)
    /\ a_validate # <<>> => OnNormalSide(a_validate, a_row, TRUE)
    /\ (a_verify # <<>> /\ a_validate # <<>>) => a_verify.nets = a_validate.nets
    /\ (a_calc # <<>> /\ a_calc.account_type \in Known /\ a_verify # <<>>) =>
          /\ a_calc.nets.period_net = a_verify.nets.period_net
          /\ a_calc.nets.closing_net = a_verify.nets.closing_net

C5_Witness ==
    /\ a_calc # <<>> /\ a_verify # <<>> /\ a_validate # <<>>
    /\ a_calc.account_type = "income"
    /\ a_verify.nets.opening_net < 0
    /\ a_verify.nets.period_net > 0
    /\ a_verify.nets.closing_net > 0

\* C6: the pair the solver derives from a signed net n, netted on the same
\* normal side, is n again, for n positive, negative and zero.
C6_RoundTrip ==
    (a_calc # <<>> /\ a_calc.account_type \in Known) =>
        NetOn(a_calc.account_type, a_calc.pair[1], a_calc.pair[2])
          = a_calc.nets.opening_net

C6_Witness ==
    /\ a_calc # <<>>
    /\ a_calc.account_type = "liability"
    /\ a_calc.nets.opening_net < -1

\* C7: the derived pair is (max(n,0), max(-n,0)) for a debit-normal row and
\* (max(-n,0), max(n,0)) for a credit-normal row; both sides are
\* non-negative, at most one is non-zero, and splitting the net of the
\* derived pair again returns the same pair.
C7_StrictSplit ==
    /\ (a_calc # <<>> /\ a_calc.account_type \in Known) =>
          /\ a_calc.pair = ClaimedPair(a_calc.account_type, a_calc.nets.opening_net)
          /\ a_calc.pair[1] >= 0 /\ a_calc.pair[2] >= 0
          /\ a_calc.pair[1] = 0 \/ a_calc.pair[2] = 0
    /\ a_again # <<>> => a_again = a_calc.pair

C7_Witness ==
    /\ a_again # <<>>
    /\ a_calc.account_type = "asset"
    /\ a_calc.nets.opening_net < 0
    /\ a_row.opening_debit > 0 /\ a_row.opening_credit > 0

-----------------------------------------------------------------------------
(* FinancialDataValidator: load_data and validate_accounting_equation      *)

NoResults == <<>>

\* a plausible slip: an unknown row counted as passed instead of skipped
validate_step_counts_unknown(results, row, idx) ==
    LET account_type == validator_get_account_type(row.code)
        n == validator_nets(account_type, row)
    IN  IF Abs(n.closing_net - (n.opening_net + n.period_net)) > tolerance
        THEN [results EXCEPT !.failed = @ + 1,
                             !.errors = Append(@, [row |-> idx,
                                                   account_type |-> account_type])]
        ELSE [results EXCEPT !.passed = @ + 1]

\* one iteration of the loop of validate_accounting_equation: a row of
\* unknown type is skipped (continue), a row off by more than the tolerance
\* gets one error record and counts as failed, any other row as passed
validate_step(results, row, idx) ==
    LET account_type == validator_get_account_type(row.code) IN
    IF account_type = "unknown" THEN results
    ELSE LET n == validator_nets(account_type, row)
             expected_closing == n.opening_net + n.period_net
         IN  IF Abs(n.closing_net - expected_closing) > tolerance
             THEN [results EXCEPT
                     !.failed = @ + 1,
                     !.errors = Append(@, [row |-> idx,
                                           account_type |-> account_type,
                                           opening_net |-> n.opening_net,
                                           period_net |-> n.period_net,
                                           closing_net |-> n.closing_net,
                                           expected_closing |-> expected_closing,
                                           difference |-> n.closing_net - expected_closing])]
             ELSE [results EXCEPT !.passed = @ + 1]

RECURSIVE validate_loop(_, _, _)
validate_loop(df, i, results) ==
    IF i > Len(df) THEN results
    ELSE validate_loop(df, i + 1, validate_step(results, df[i], i))

\* validate_accounting_equation(): the results it returns and stores
validate_accounting_equation(df) ==
    validate_loop(df, 1, [passed |-> 0, failed |-> 0, errors |-> <<>>])

InitValidate ==
    /\ disk \in Tables
    /\ disk0 = disk
    /\ backup = NoFile /\ balance_df = NoDf /\ pc = "idle"
    /\ adjustments_made = 0 /\ verification = NoVerification
    /\ report = FALSE /\ result = "none" /\ trace = <<>>
    /\ v_df = NoDf /\ v_pc = "idle" /\ v_results = NoResults
    /\ InitIdleClassifier /\ InitIdleArithmetic /\ InitIdleChecks

\* FinancialDataValidator.load_data: read_csv of the two files and
\* _preprocess_data, or raise
ValidatorLoadData ==
    /\ v_pc = "idle"
    /\ \E outcome \in {"ok", "raises"} :
        /\ v_df' = IF outcome = "ok" THEN disk ELSE v_df
        /\ k_vouchers' = IF outcome = "ok" THEN k_file ELSE k_vouchers
        /\ v_pc' = IF outcome = "ok" THEN "loaded" ELSE "failed"
    /\ UNCHANGED <<v_results, runVars, clsVars, arVars, hVars, yVars, sVars>>
    /\ UNCHANGED <<k_file, k_pc, k_results>>

\* FinancialDataValidator.validate_accounting_equation
ValidateAccountingEquation ==
    /\ v_pc = "loaded"
    /\ v_results' = validate_accounting_equation(v_df)
    /\ v_pc' = "validated"
    /\ UNCHANGED <<v_df, runVars, clsVars, arVars, xVars>>

NextValidate == ValidatorLoadData \/ ValidateAccountingEquation

SpecValidate == InitValidate /\ [][NextValidate]_vars

\* the rows the validator classifies from the code, and those among them
\* that break the identity
CodeKnown(row) == ByFirstChar(PySplit(PyStr(row.code), ".")[1]) # "unknown"

BreaksIdentity(row) ==
    LET t == ByFirstChar(PySplit(PyStr(row.code), ".")[1])
        o == NetOn(t, row.opening_debit, row.opening_credit)
        p == NetOn(t, row.period_debit, row.period_credit)
        c == NetOn(t, row.closing_debit, row.closing_credit)
    IN  Abs(c - (o + p)) > tolerance

-----------------------------------------------------------------------------
(* Claims about adjust_opening_balances                                    *)

\* adjust_opening_balances has run over the loaded table (which load_data
\* read from the pre-run file, disk0)
AfterAdjust == \E k \in 1..Len(trace) : trace[k] = "adjust"

SolverType(row) == solver_get_account_type(row.code, row.path)

\* the pair derived from closingNet - periodNet on the row's normal side
DerivedPair(row) ==
    ClaimedPair(SolverType(row),
                NetOn(SolverType(row), row.closing_debit, row.closing_credit)
                  - NetOn(SolverType(row), row.period_debit, row.period_credit))

OpeningPair(row) == <<row.opening_debit, row.opening_credit>>

Differs(pair, row) ==
    \/ Abs(pair[1] - row.opening_debit) > tolerance
    \/ Abs(pair[2] - row.opening_credit) > tolerance

Solvable(row) ==
    InScope(row) /\ row.name # GrandTotal /\ SolverType(row) \in Known

\* C9: for every row of a target year that is no grand-total row and has a
\* known classification, the stored opening pair is overwritten with the
\* pair derived from closingNet - periodNet exactly when the derived pair
\* differs from the stored pair by more than 0.01 on the debit or on the
\* credit side, and is kept otherwise; after the pass the stored pair is
\* within 0.01 per side of the derived pair.
C9_OverwriteWhenBeyondTolerance ==
    AfterAdjust =>
        \A i \in 1..Len(disk0) :
            Solvable(disk0[i]) =>
                /\ Differs(DerivedPair(disk0[i]), disk0[i]) =>
                     OpeningPair(balance_df[i]) = DerivedPair(disk0[i])
                /\ ~Differs(DerivedPair(disk0[i]), disk0[i]) =>
                     OpeningPair(balance_df[i]) = OpeningPair(disk0[i])
                /\ ~Differs(DerivedPair(disk0[i]), balance_df[i])

C9_Witness ==
    /\ AfterAdjust
    /\ \E i \in 1..Len(disk0) :
        /\ Solvable(disk0[i])
        /\ SolverType(disk0[i]) = "liability"
        /\ Abs(DerivedPair(disk0[i])[1] - disk0[i].opening_debit) <= tolerance
        /\ Abs(DerivedPair(disk0[i])[2] - disk0[i].opening_credit) > tolerance
        /\ OpeningPair(balance_df[i]) # OpeningPair(disk0[i])
    /\ \E i \in 1..Len(disk0) :
        /\ Solvable(disk0[i])
        /\ OpeningPair(disk0[i]) # DerivedPair(disk0[i])
        /\ OpeningPair(balance_df[i]) = OpeningPair(disk0[i])

\* C10: a row the solver classifies unknown keeps its opening debit and
\* opening credit through adjust_opening_balances, whatever its period and
\* closing amounts are.
C10_UnknownRowUntouched ==
    AfterAdjust =>
        \A i \in 1..Len(disk0) :
            SolverType(disk0[i]) = "unknown" =>
                OpeningPair(balance_df[i]) = OpeningPair(disk0[i])

C10_Witness ==
    /\ AfterAdjust
    /\ adjustments_made > 0
    /\ \E i \in 1..Len(disk0) :
        /\ InScope(disk0[i])
        /\ disk0[i].name # GrandTotal
        /\ disk0[i].code = Txt9999
        /\ SolverType(disk0[i]) = "unknown"
        /\ disk0[i].closing_debit - disk0[i].period_debit
             - disk0[i].opening_debit > tolerance


OtherFields(row) ==
    <<row.year, row.name, row.code, row.path, row.period_debit,
      row.period_credit, row.closing_debit, row.closing_credit>>

\* C11: adjust_opening_balances changes nothing but the opening debit and
\* opening credit of rows of a target year that are no grand-total rows:
\* rows of other years, grand-total rows, the period and closing fields of
\* every row and the number and order of the rows stay as they were.
C11_OnlyOpeningOfScopedRows ==
    AfterAdjust =>
        /\ Len(balance_df) = Len(disk0)
        /\ \A i \in 1..Len(disk0) :
            /\ OtherFields(balance_df[i]) = OtherFields(disk0[i])
            /\ (~InScope(disk0[i]) \/ disk0[i].name = GrandTotal) =>
                 balance_df[i] = disk0[i]

C11_Witness ==
    /\ AfterAdjust
    /\ adjustments_made = 1
    /\ disk0[1].name = GrandTotal /\ InScope(disk0[1])
    /\ SolverType(disk0[1]) = "asset"
    /\ Differs(DerivedPair(disk0[1]), disk0[1])
    /\ balance_df[1] = disk0[1]
    /\ balance_df[2] # disk0[2]

\* C12 (as claimed): a row of a target year that already satisfies the
\* identity is never overwritten by adjust_opening_balances.
C12_BalancedRowNeverOverwritten ==
    AfterAdjust =>
        \A i \in 1..Len(disk0) :
            (InScope(disk0[i]) /\ SatisfiesIdentity(disk0[i])) =>
                OpeningPair(balance_df[i]) = OpeningPair(disk0[i])

\* C12 (amended): the solver rewrites a row by the per-side comparison with
\* the derived pair, not by the identity. A row of a target year that
\* satisfies the identity is overwritten only when its stored opening pair
\* carries an amount on both sides; it then holds the one-sided derived
\* pair and its opening net moved by at most 0.01. A row that satisfies the
\* identity with at most one non-zero opening side is never overwritten.
C12_BalancedRowOnlyNormalised ==
    AfterAdjust =>
        \A i \in 1..Len(disk0) :
            (InScope(disk0[i]) /\ SatisfiesIdentity(disk0[i])
               /\ OpeningPair(balance_df[i]) # OpeningPair(disk0[i])) =>
                /\ disk0[i].opening_debit > 0 /\ disk0[i].opening_credit > 0
                /\ OpeningPair(balance_df[i]) = DerivedPair(disk0[i])
                /\ Abs(NetOn(SolverType(disk0[i]), balance_df[i].opening_debit,
                             balance_df[i].opening_credit)
                       - NetOn(SolverType(disk0[i]), disk0[i].opening_debit,
                               disk0[i].opening_credit)) <= tolerance

C12_Witness ==
    /\ AfterAdjust
    /\ \E i \in 1..Len(disk0) :
        /\ InScope(disk0[i]) /\ SatisfiesIdentity(disk0[i])
        /\ OpeningPair(disk0[i]) = <<2, 1>>
        /\ OpeningPair(balance_df[i]) = <<0, 0>>


-----------------------------------------------------------------------------
(* FinancialDataValidator.validate_hierarchy_correctness                   *)

\* sep.join(parts)
RECURSIVE PyJoin(_, _)
PyJoin(parts, sep) ==
    IF parts = <<>> THEN <<>>
    ELSE IF Len(parts) = 1 THEN parts[1]
    ELSE parts[1] \o <<sep>> \o PyJoin(Tail(parts), sep)

\* the index labels of a table, in order
Indices(df) == [i \in 1..Len(df) |-> i]

\* the (company, period) keys in the order groupby yields them
GroupKeys == << <<"A", "2024">>, <<"A", "2025">>, <<"B", "2024">> >>

\* one group of non_dimension_df.groupby(['公司', '期间']): its index labels
period_group(df, key) ==
    SelectSeq(Indices(df), LAMBDA i : /\ ~df[i].is_dimension_row
                                      /\ df[i].company = key[1]
                                      /\ df[i].period = key[2])

\* the '.'.join(parts[:i]) of a row that are codes of the group as text
parent_candidates(df, group, idx) ==
    LET parts == PySplit(PyStr(df[idx].code), ".")
        present == {PyStr(df[group[j]].code) : j \in 1..Len(group)}
    IN  {PyJoin(SubSeq(parts, 1, i), ".") : i \in 1..(Len(parts) - 1)}
            \cap present

\* a plausible slip: the topmost ancestor taken instead of the nearest
min_by_len(cands) == CHOOSE c \in cands : \A d \in cands : Len(c) <= Len(d)

\* max(parent_candidates, key=len): the candidates have distinct lengths
max_by_len(cands) == CHOOSE c \in cands : \A d \in cands : Len(d) <= Len(c)

\* the body of the loop of _build_subject_tree for the row labelled idx; the
\* tree is kept as the dict's items in insertion order, children as labels
tree_step(tree, df, group, idx) ==
    LET cands == parent_candidates(df, group, idx) IN
    IF cands = {} THEN tree
    ELSE LET parent_code == max_by_len(cands) IN
         IF \E k \in 1..Len(tree) : tree[k].parent = parent_code
         THEN [k \in 1..Len(tree) |->
                 IF tree[k].parent = parent_code
                 THEN [tree[k] EXCEPT !.children = Append(@, idx)]
                 ELSE tree[k]]
         ELSE Append(tree, [parent |-> parent_code, children |-> <<idx>>])

RECURSIVE tree_loop(_, _, _, _)
tree_loop(df, group, j, tree) ==
    IF j > Len(group) THEN tree
    ELSE tree_loop(df, group, j + 1, tree_step(tree, df, group, group[j]))

\* _build_subject_tree(period_group)
build_subject_tree(df, group) == tree_loop(df, group, 1, <<>>)

\* sum(child[col] for child in children)
RECURSIVE child_sum(_, _, _)
child_sum(df, children, col) ==
    IF children = <<>> THEN 0
    ELSE df[Head(children)][col] + child_sum(df, Tail(children), col)

\* a plausible slip: every parent compared column by column
hierarchy_checks_raw(parent_row, parent_account_type, df, children) ==
    << <<"opening_debit", parent_row.opening_debit,
         child_sum(df, children, "opening_debit")>>,
       <<"opening_credit", parent_row.opening_credit,
         child_sum(df, children, "opening_credit")>>,
       <<"period_debit", parent_row.period_debit,
         child_sum(df, children, "period_debit")>>,
       <<"period_credit", parent_row.period_credit,
         child_sum(df, children, "period_credit")>>,
       <<"closing_debit", parent_row.closing_debit,
         child_sum(df, children, "closing_debit")>>,
       <<"closing_credit", parent_row.closing_credit,
         child_sum(df, children, "closing_credit")>> >>

\* a plausible slip: every parent compared on debit-minus-credit nets
hierarchy_checks_netted(parent_row, parent_account_type, df, children) ==
    << <<"opening_net", parent_row.opening_debit - parent_row.opening_credit,
         child_sum(df, children, "opening_debit")
           - child_sum(df, children, "opening_credit")>>,
       <<"period_net", parent_row.period_debit - parent_row.period_credit,
         child_sum(df, children, "period_debit")
           - child_sum(df, children, "period_credit")>>,
       <<"closing_net", parent_row.closing_debit - parent_row.closing_credit,
         child_sum(df, children, "closing_debit")
           - child_sum(df, children, "closing_credit")>> >>

\* the list checks of validate_hierarchy_correctness: (field, parent value,
\* children's sum) per comparison
hierarchy_checks(parent_row, parent_account_type, df, children) ==
    LET child_debit_open == child_sum(df, children, "opening_debit")
        child_credit_open == child_sum(df, children, "opening_credit")
        child_debit_current == child_sum(df, children, "period_debit")
        child_credit_current == child_sum(df, children, "period_credit")
        child_debit_close == child_sum(df, children, "closing_debit")
        child_credit_close == child_sum(df, children, "closing_credit")
    IN  IF parent_account_type \in {"asset", "expense"}
        THEN << <<"opening_net",
                  parent_row.opening_debit - parent_row.opening_credit,
                  child_debit_open - child_credit_open>>,
                <<"period_net",
                  parent_row.period_debit - parent_row.period_credit,
                  child_debit_current - child_credit_current>>,
                <<"closing_net",
                  parent_row.closing_debit - parent_row.closing_credit,
                  child_debit_close - child_credit_close>> >>
        ELSE IF parent_account_type \in {"liability", "equity", "income"}
        THEN << <<"opening_net",
                  parent_row.opening_credit - parent_row.opening_debit,
                  child_credit_open - child_debit_open>>,
                <<"period_net",
                  parent_row.period_credit - parent_row.period_debit,
                  child_credit_current - child_debit_current>>,
                <<"closing_net",
                  parent_row.closing_credit - parent_row.closing_debit,
                  child_credit_close - child_debit_close>> >>
        ELSE << <<"opening_debit", parent_row.opening_debit, child_debit_open>>,
                <<"opening_credit", parent_row.opening_credit, child_credit_open>>,
                <<"period_debit", parent_row.period_debit, child_debit_current>>,
                <<"period_credit", parent_row.period_credit, child_credit_current>>,
                <<"closing_debit", parent_row.closing_debit, child_debit_close>>,
                <<"closing_credit", parent_row.closing_credit, child_credit_close>> >>

\* the loop over checks: one error record and failed += 1 when the two
\* values differ by more than the tolerance, passed += 1 otherwise
RECURSIVE hierarchy_check_loop(_, _, _, _, _, _)
hierarchy_check_loop(results, checks, j, parent_code, parent_account_type, key) ==
    IF j > Len(checks) THEN results
    ELSE LET field == checks[j][1]
             parent_val == checks[j][2]
             sum == checks[j][3]
             next ==
               IF Abs(parent_val - sum) > tolerance
               THEN [results EXCEPT
                       !.failed = @ + 1,
                       !.errors = Append(@, [parent_subject |-> parent_code,
                                             account_type |-> parent_account_type,
                                             company |-> key[1],
                                             period |-> key[2],
                                             field |-> field,
                                             parent_value |-> parent_val,
                                             child_sum |-> sum,
                                             difference |-> parent_val - sum])]
               ELSE [results EXCEPT !.passed = @ + 1]
         IN  hierarchy_check_loop(next, checks, j + 1, parent_code,
                                  parent_account_type, key)

\* the body of the loop over subject_tree.items(): a parent whose code is
\* not among the raw codes of the group is skipped; the parent row is the
\* first row of the group with that code
hierarchy_parent_step(results, df, group, key, entry) ==
    LET holders == SelectSeq(group, LAMBDA i : df[i].code = entry.parent) IN
    IF holders = <<>> THEN results
    ELSE LET parent_row == df[holders[1]]
             parent_account_type == validator_get_account_type(entry.parent)
         IN  hierarchy_check_loop(results,
                 hierarchy_checks(parent_row, parent_account_type, df,
                                  entry.children),
                 1, entry.parent, parent_account_type, key)

RECURSIVE hierarchy_parent_loop(_, _, _, _, _, _)
hierarchy_parent_loop(results, df, group, key, tree, k) ==
    IF k > Len(tree) THEN results
    ELSE hierarchy_parent_loop(
             hierarchy_parent_step(results, df, group, key, tree[k]),
             df, group, key, tree, k + 1)

\* the loop over the groups; a key without rows forms no group
RECURSIVE hierarchy_group_loop(_, _, _)
hierarchy_group_loop(acc, df, g) ==
    IF g > Len(GroupKeys) THEN acc
    ELSE LET group == period_group(df, GroupKeys[g]) IN
         IF group = <<>> THEN hierarchy_group_loop(acc, df, g + 1)
         ELSE LET subject_tree == build_subject_tree(df, group)
              IN  hierarchy_group_loop(
                      [results |-> hierarchy_parent_loop(acc.results, df, group,
                                        GroupKeys[g], subject_tree, 1),
                       trees |-> Append(acc.trees, [key |-> GroupKeys[g],
                                                    group |-> group,
                                                    tree |-> subject_tree])],
                      df, g + 1)

\* validate_hierarchy_correctness(): the results it stores, and the trees
\* it built on the way
validate_hierarchy_correctness(df) ==
    hierarchy_group_loop([results |-> [passed |-> 0, failed |-> 0, errors |-> <<>>],
                          trees |-> <<>>], df, 1)

\* a plausible slip: the non-dimension filter assigned to self.balance_df
ValidateHierarchyFilteringInPlace ==
    /\ v_pc \in {"loaded", "validated"}
    /\ h_pc = "idle"
    /\ h_results' = validate_hierarchy_correctness(v_df).results
    /\ h_trees' = validate_hierarchy_correctness(v_df).trees
    /\ h_pc' = "done"
    /\ v_df' = SelectSeq(v_df, LAMBDA row : ~row.is_dimension_row)
    /\ UNCHANGED <<v_pc, v_results, runVars, clsVars, arVars, yVars, kVars, sVars>>

\* FinancialDataValidator.validate_hierarchy_correctness
ValidateHierarchyCorrectness ==
    /\ v_pc \in {"loaded", "validated"}
    /\ h_pc = "idle"
    /\ h_results' = validate_hierarchy_correctness(v_df).results
    /\ h_trees' = validate_hierarchy_correctness(v_df).trees
    /\ h_pc' = "done"
    /\ UNCHANGED <<v_df, v_pc, v_results, runVars, clsVars, arVars, yVars, kVars>>
    /\ UNCHANGED sVars

\* the year _preprocess_data extracts from the period text
YearOf(period) ==
    CASE period = "2023" -> 2023 [] period = "2024" -> 2024 [] OTHER -> 2025

FullRow(company, period, code, is_dimension_row, a) ==
    [company |-> company, period |-> period, year |-> YearOf(period),
     name |-> "account", code |-> code, path |-> NaN,
     is_dimension_row |-> is_dimension_row,
     dimension |-> IF is_dimension_row THEN <<"d", "1">> ELSE NaN,
     opening_debit |-> a[1], opening_credit |-> a[2],
     period_debit |-> a[3], period_credit |-> a[4],
     closing_debit |-> a[5], closing_credit |-> a[6]]

\* a dimension row with the given 核算维度名称
DimensionRow(company, period, code, dimension, a) ==
    [FullRow(company, period, code, TRUE, a) EXCEPT !.dimension = dimension]

Txt2202 == <<"2", "2", "0", "2">>

\* the codes of the generated parent rows: one per classification
ParentCodes == {Txt1001, Txt2202, Txt3001, Txt4001, Txt6601, Txt9999}

Sub01 == <<".", "0", "1">>
Sub02 == <<".", "0", "2">>

\* the rows below a parent code p, in file order: children with amounts on
\* both sides, a code that only shares characters (p0), a grandchild with
\* and without its own parent, a dimension row, rows of another period and
\* of another company, a blank code
Families(p) ==
    { << FullRow("A", "2024", p \o Sub01, FALSE, <<3, 0, 0, 0, 0, 0>>),
         FullRow("A", "2024", p \o Sub02, FALSE, <<0, 2, 0, 0, 0, 0>>) >>,
      << FullRow("A", "2024", p \o Sub01, FALSE, <<1, 0, 0, 0, 1, 0>>),
         FullRow("A", "2024", p \o <<"0">>, FALSE, <<2, 0, 0, 0, 2, 0>>) >>,
      << FullRow("A", "2024", p \o Sub01, FALSE, <<0, 1, 1, 0, 0, 0>>),
         FullRow("A", "2024", p \o <<"0">>, FALSE, <<0, 0, 0, 0, 1, 0>>),
         FullRow("A", "2024", p \o Sub01 \o Sub01, FALSE, <<0, 1, 1, 0, 0, 0>>) >>,
      << FullRow("A", "2024", p \o Sub01 \o Sub01, FALSE, <<0, 0, 0, 1, 0, 1>>),
         FullRow("A", "2024", NaN, FALSE, <<1, 1, 1, 1, 1, 1>>) >>,
      << FullRow("A", "2024", p \o Sub01, FALSE, <<1, 0, 0, 0, 0, 0>>),
         FullRow("A", "2024", p \o Sub02, TRUE, <<2, 0, 0, 0, 0, 0>>) >>,
      << FullRow("A", "2025", p \o Sub01, FALSE, <<0, 0, 0, 2, 0, 2>>),
         FullRow("B", "2024", p \o Sub01, FALSE, <<0, 0, 2, 0, 2, 0>>) >>,
      << FullRow("A", "2024", p \o Sub01, FALSE, <<0, 2, 2, 0, 0, 0>>),
         FullRow("A", "2024", p \o Sub01, FALSE, <<2, 0, 0, 2, 0, 0>>) >> }

\* a generated row of company A and period 2024 with the rows below its
\* code or below the code 1001, the generated row first or last in the file
HierarchyTables ==
    UNION { { <<FullRow("A", "2024", p, FALSE, a)>> \o f :
                a \in Amounts, f \in Families(p) \cup Families(Txt1001) }
            \cup
            { f \o <<FullRow("A", "2024", p, FALSE, a)>> :
                a \in Amounts, f \in Families(p) \cup Families(Txt1001) }
            : p \in ParentCodes }

InitHierarchy ==
    /\ disk \in HierarchyTables
    /\ disk0 = disk
    /\ backup = NoFile /\ balance_df = NoDf /\ pc = "idle"
    /\ adjustments_made = 0 /\ verification = NoVerification
    /\ report = FALSE /\ result = "none" /\ trace = <<>>
    /\ v_df = NoDf /\ v_pc = "idle" /\ v_results = NoResults
    /\ InitIdleClassifier /\ InitIdleArithmetic /\ InitIdleChecks

NextHierarchy == ValidatorLoadData \/ ValidateHierarchyCorrectness

SpecHierarchy == InitHierarchy /\ [][NextHierarchy]_vars

\* the hierarchy as the claims state it
HierarchyDone == h_pc = "done"

KeySet == {GroupKeys[g] : g \in 1..Len(GroupKeys)}

\* the non-dimension rows of one company and period
Slice(key) ==
    {i \in 1..Len(v_df) : /\ ~v_df[i].is_dimension_row
                          /\ v_df[i].company = key[1]
                          /\ v_df[i].period = key[2]}

\* p is a proper prefix of c made of whole dot-segments
SegmentPrefix(p, c) ==
    /\ Len(p) < Len(c)
    /\ SubSeq(c, 1, Len(p)) = p
    /\ c[Len(p) + 1] = "."

PrefixesPresent(i, S) ==
    {v_df[j].code : j \in {j \in S : SegmentPrefix(v_df[j].code, v_df[i].code)}}

Longest(P) == CHOOSE p \in P : \A q \in P : Len(q) <= Len(p)

HasParent(i, S) == PrefixesPresent(i, S) # {}

ClaimedChildren(p, S) ==
    {i \in S : HasParent(i, S) /\ Longest(PrefixesPresent(i, S)) = p}

ClaimedParents(S) ==
    {Longest(PrefixesPresent(i, S)) : i \in {i \in S : HasParent(i, S)}}

Occurrences(seq, x) == Cardinality({k \in 1..Len(seq) : seq[k] = x})

TreeOf(key) ==
    LET T == {h_trees[k] : k \in {k \in 1..Len(h_trees) : h_trees[k].key = key}}
    IN  IF T = {} THEN <<>> ELSE (CHOOSE t \in T : TRUE).tree

Lists(tree, i) == {k \in 1..Len(tree) : Occurrences(tree[k].children, i) > 0}

\* C14: in _build_subject_tree, within one (company, period) slice of
\* non-dimension rows, a row's parent is the longest proper dot-segment
\* prefix of its code that is the code of a row of the slice; the row is in
\* that parent's children list once and in no other list, never in its own;
\* a row none of whose proper prefixes is present is in no list; prefixes
\* are whole segments, so the row 10010 is no child of 1001.
C14_ParentIsLongestSegmentPrefix ==
    HierarchyDone =>
        \A key \in KeySet :
            LET S == Slice(key)
                tree == TreeOf(key)
            IN  /\ \A k \in 1..Len(tree) :
                     /\ \A c \in 1..Len(tree[k].children) :
                          /\ tree[k].children[c] \in S
                          /\ v_df[tree[k].children[c]].code # tree[k].parent
                     /\ \A m \in 1..Len(tree) :
                          tree[m].parent = tree[k].parent => m = k
                /\ \A i \in S :
                     IF HasParent(i, S)
                     THEN \E k \in 1..Len(tree) :
                            /\ Lists(tree, i) = {k}
                            /\ Occurrences(tree[k].children, i) = 1
                            /\ tree[k].parent = Longest(PrefixesPresent(i, S))
                     ELSE Lists(tree, i) = {}

C14_Witness ==
    /\ HierarchyDone
    /\ \E i, j, m, n \in Slice(<<"A", "2024">>) :
        LET tree == TreeOf(<<"A", "2024">>) IN
        /\ v_df[j].code = v_df[i].code \o Sub01
        /\ v_df[m].code = v_df[j].code \o Sub01
        /\ v_df[n].code = v_df[i].code \o <<"0">>
        /\ Len(tree) = 2
        /\ \E k \in 1..2 : tree[k].parent = v_df[i].code /\ tree[k].children = <<j>>
        /\ \E k \in 1..2 : tree[k].parent = v_df[j].code /\ tree[k].children = <<m>>

ChecksMade == h_results.passed + h_results.failed

ErrorsOf(key, p) ==
    {k \in 1..Len(h_results.errors) :
        /\ h_results.errors[k].parent_subject = p
        /\ h_results.errors[k].company = key[1]
        /\ h_results.errors[k].period = key[2]}

ParentRow(p, S) == v_df[CHOOSE j \in S : v_df[j].code = p]

RECURSIVE SumOver(_, _)
SumOver(S, col) ==
    IF S = {} THEN 0
    ELSE LET i == CHOOSE i \in S : TRUE
         IN  v_df[i][col] + SumOver(S \ {i}, col)

HierarchyType(p) == ByFirstChar(PySplit(p, ".")[1])

ParentsChecked ==
    UNION { {<<key, p>> : p \in ClaimedParents(Slice(key))} : key \in KeySet }

NetFields ==
    { <<"opening_net", "opening_debit", "opening_credit">>,
      <<"period_net", "period_debit", "period_credit">>,
      <<"closing_net", "closing_debit", "closing_credit">> }

RawFields ==
    {"opening_debit", "opening_credit", "period_debit", "period_credit",
     "closing_debit", "closing_credit"}

\* C15: for a parent classified asset, expense, liability, equity or income,
\* validate_hierarchy_correctness makes exactly three comparisons (opening,
\* period, closing), each of the parent's net against the net of the
\* children's summed debit and credit on the parent's normal side, and a
\* comparison fails exactly when the two differ by more than 0.01.
C15_KnownParentComparedOnNets ==
    HierarchyDone =>
        /\ \A kp \in ParentsChecked :
            LET S == Slice(kp[1])
                p == kp[2]
                t == HierarchyType(p)
                kids == ClaimedChildren(p, S)
            IN  t \in Known =>
                /\ \A f \in NetFields :
                    LET mine == NetOn(t, ParentRow(p, S)[f[2]], ParentRow(p, S)[f[3]])
                        theirs == NetOn(t, SumOver(kids, f[2]), SumOver(kids, f[3]))
                        recs == {k \in ErrorsOf(kp[1], p) :
                                    h_results.errors[k].field = f[1]}
                    IN  /\ Cardinality(recs) = IF Abs(mine - theirs) > tolerance
                                               THEN 1 ELSE 0
                        /\ \A k \in recs :
                            /\ h_results.errors[k].parent_value = mine
                            /\ h_results.errors[k].child_sum = theirs
                /\ \A k \in ErrorsOf(kp[1], p) :
                    h_results.errors[k].field \in {f[1] : f \in NetFields}
        /\ (\A kp \in ParentsChecked : HierarchyType(kp[2]) \in Known) =>
              ChecksMade = 3 * Cardinality(ParentsChecked)

C15_Witness ==
    /\ HierarchyDone
    /\ \E kp \in ParentsChecked :
        LET S == Slice(kp[1])
            kids == ClaimedChildren(kp[2], S)
        IN  /\ HierarchyType(kp[2]) = "liability"
            /\ SumOver(kids, "opening_debit") = 3
            /\ SumOver(kids, "opening_credit") = 2
            /\ ParentRow(kp[2], S).opening_debit = 1
            /\ ParentRow(kp[2], S).opening_credit = 0
    /\ h_results.failed = 0
    /\ h_results.passed = 3

\* C16: for a parent whose classification is unknown,
\* validate_hierarchy_correctness makes exactly six comparisons, one per raw
\* column, between the parent's value and the children's sum, without
\* netting: children that net to the parent's net but differ from it on a
\* raw column by more than 0.01 are reported.
C16_UnknownParentComparedOnColumns ==
    HierarchyDone =>
        /\ \A kp \in ParentsChecked :
            LET S == Slice(kp[1])
                p == kp[2]
                kids == ClaimedChildren(p, S)
            IN  HierarchyType(p) = "unknown" =>
                /\ \A col \in RawFields :
                    LET recs == {k \in ErrorsOf(kp[1], p) :
                                    h_results.errors[k].field = col}
                    IN  /\ Cardinality(recs)
                             = IF Abs(ParentRow(p, S)[col] - SumOver(kids, col))
                                    > tolerance
                               THEN 1 ELSE 0
                        /\ \A k \in recs :
                            /\ h_results.errors[k].parent_value = ParentRow(p, S)[col]
                            /\ h_results.errors[k].child_sum = SumOver(kids, col)
                /\ \A k \in ErrorsOf(kp[1], p) :
                    h_results.errors[k].field \in RawFields
        /\ (\A kp \in ParentsChecked : HierarchyType(kp[2]) = "unknown") =>
              ChecksMade = 6 * Cardinality(ParentsChecked)

C16_Witness ==
    /\ HierarchyDone
    /\ \E kp \in ParentsChecked :
        LET S == Slice(kp[1])
            kids == ClaimedChildren(kp[2], S)
        IN  /\ HierarchyType(kp[2]) = "unknown"
            /\ SumOver(kids, "opening_debit") = 3
            /\ SumOver(kids, "opening_credit") = 2
            /\ ParentRow(kp[2], S).opening_debit = 1
            /\ ParentRow(kp[2], S).opening_credit = 0
    /\ h_results.failed = 2
    /\ h_results.passed = 4

-----------------------------------------------------------------------------
(* FinancialDataValidator.validate_year_continuity                         *)

\* the order of the characters that occur in company names and codes
CharRank(ch) ==
    CASE ch = "," -> 0 [] ch = "." -> 1 [] ch = "0" -> 2 [] ch = "1" -> 3
      [] ch = "2" -> 4 [] ch = "3" -> 5 [] ch = "4" -> 6 [] ch = "5" -> 7
      [] ch = "6" -> 8 [] ch = "7" -> 9 [] ch = "8" -> 10 [] ch = "9" -> 11
      [] ch = "A" -> 12 [] OTHER -> 13

\* s < t for two texts
RECURSIVE TextLess(_, _)
TextLess(s, t) ==
    IF t = <<>> THEN FALSE
    ELSE IF s = <<>> THEN TRUE
    ELSE IF s[1] # t[1] THEN CharRank(s[1]) < CharRank(t[1])
    ELSE TextLess(Tail(s), Tail(t))

\* the order of two (company, code) keys
KeyLess(k1, k2) ==
    \/ CharRank(k1[1]) < CharRank(k2[1])
    \/ k1[1] = k2[1] /\ TextLess(k1[2], k2[2])

\* the sequences that hold every element of S once
Orderings(S) ==
    {s \in [1..Cardinality(S) -> S] :
        \A i, j \in 1..Cardinality(S) : s[i] = s[j] => i = j}

\* the keys of balance_df.groupby(['公司', '科目编码']) in the order it
\* yields them; a row with a blank code belongs to no group
continuity_keys(df) ==
    LET K == {<<df[i].company, df[i].code>> :
                 i \in {i \in 1..Len(df) : df[i].code # NaN}}
    IN  CHOOSE s \in Orderings(K) :
            \A i, j \in 1..Len(s) : i < j => KeyLess(s[i], s[j])

\* the index labels of one group
continuity_group(df, key) ==
    {i \in 1..Len(df) : df[i].company = key[1] /\ df[i].code = key[2]}

\* group.sort_values('年份'): ascending in the year; the order of rows of
\* the same year is not fixed by the sort
sort_values_year(df, rows) ==
    {s \in Orderings(rows) :
        \A i, j \in 1..Len(s) : i < j => df[s[i]].year <= df[s[j]].year}

\* every way the groups can come out sorted, one entry per group
RECURSIVE sorted_groups(_, _)
sorted_groups(df, keys) ==
    IF keys = <<>> THEN {<<>>}
    ELSE { <<[key |-> Head(keys), rows |-> s]>> \o rest :
             s \in sort_values_year(df, continuity_group(df, Head(keys))),
             rest \in sorted_groups(df, Tail(keys)) }

\* a plausible slip: the carried balance compared on its net
year_pair_matches_on_net(prev_year, curr_year) ==
    Abs((prev_year.closing_debit - prev_year.closing_credit)
        - (curr_year.opening_debit - curr_year.opening_credit)) <= tolerance

\* a plausible slip: < instead of <=
year_pair_matches_strict(prev_year, curr_year) ==
    /\ Abs(prev_year.closing_debit - curr_year.opening_debit) < tolerance
    /\ Abs(prev_year.closing_credit - curr_year.opening_credit) < tolerance

\* debit_match and credit_match
year_pair_matches(prev_year, curr_year) ==
    /\ Abs(prev_year.closing_debit - curr_year.opening_debit) <= tolerance
    /\ Abs(prev_year.closing_credit - curr_year.opening_credit) <= tolerance

\* the body of the loop over range(1, len(group)): a pair whose years are
\* not consecutive is skipped
continuity_step(results, key, prev_year, curr_year) ==
    IF curr_year.year # prev_year.year + 1 THEN results
    ELSE IF ~year_pair_matches(prev_year, curr_year)
    THEN [results EXCEPT
            !.failed = @ + 1,
            !.errors = Append(@, [subject_code |-> key[2],
                                  company |-> key[1],
                                  prev_year |-> prev_year.year,
                                  curr_year |-> curr_year.year,
                                  prev_closing_debit |-> prev_year.closing_debit,
                                  prev_closing_credit |-> prev_year.closing_credit,
                                  curr_opening_debit |-> curr_year.opening_debit,
                                  curr_opening_credit |-> curr_year.opening_credit])]
    ELSE [results EXCEPT !.passed = @ + 1]

RECURSIVE continuity_pair_loop(_, _, _, _)
continuity_pair_loop(results, df, entry, i) ==
    IF i > Len(entry.rows) THEN results
    ELSE continuity_pair_loop(
             continuity_step(results, entry.key, df[entry.rows[i - 1]],
                             df[entry.rows[i]]),
             df, entry, i + 1)

RECURSIVE continuity_group_loop(_, _, _, _)
continuity_group_loop(results, df, groups, g) ==
    IF g > Len(groups) THEN results
    ELSE continuity_group_loop(
             continuity_pair_loop(results, df, groups[g], 2), df, groups, g + 1)

\* validate_year_continuity() for the groups sorted as given
validate_year_continuity(df, groups) ==
    continuity_group_loop([passed |-> 0, failed |-> 0, errors |-> <<>>],
                          df, groups, 1)

\* FinancialDataValidator.validate_year_continuity
ValidateYearContinuity ==
    /\ v_pc \in {"loaded", "validated"}
    /\ y_pc = "idle"
    /\ \E groups \in sorted_groups(v_df, continuity_keys(v_df)) :
        /\ y_order' = groups
        /\ y_results' = validate_year_continuity(v_df, groups)
    /\ y_pc' = "done"
    /\ UNCHANGED <<v_df, v_pc, v_results, runVars, clsVars, arVars, hVars, kVars>>
    /\ UNCHANGED sVars

Txt1002 == <<"1", "0", "0", "2">>

\* the rows put beside the generated row: a closing balance on both sides,
\* a single year, two years with a gap between them, two dimension rows of
\* one year, a total row with a dimension row over two years, the code in
\* another company and another code, a blank code
ContinuityCompanions ==
    { << FullRow("A", "2023", Txt1002, FALSE, <<0, 0, 0, 0, 2, 2>>) >>,
      << FullRow("A", "2024", Txt1002, FALSE, <<1, 0, 0, 0, 1, 0>>) >>,
      << FullRow("A", "2023", Txt1002, FALSE, <<0, 0, 0, 0, 1, 0>>),
         FullRow("A", "2025", Txt1002, FALSE, <<1, 0, 0, 0, 0, 0>>) >>,
      << DimensionRow("A", "2024", Txt1002, <<"d", "1">>, <<2, 0, 0, 0, 2, 0>>),
         DimensionRow("A", "2024", Txt1002, <<"d", "2">>, <<0, 1, 0, 0, 0, 1>>) >>,
      << FullRow("A", "2023", Txt1002, FALSE, <<0, 0, 0, 0, 3, 0>>),
         DimensionRow("A", "2023", Txt1002, <<"d", "1">>, <<0, 0, 0, 0, 1, 0>>),
         DimensionRow("A", "2024", Txt1002, <<"d", "1">>, <<1, 0, 0, 0, 1, 0>>) >>,
      << FullRow("B", "2023", Txt1002, FALSE, <<0, 0, 0, 0, 3, 0>>),
         FullRow("A", "2023", Txt1001, FALSE, <<0, 0, 0, 0, 3, 0>>) >>,
      << FullRow("A", "2023", NaN, FALSE, <<0, 0, 0, 0, 1, 0>>) >> }

\* company A, account 1002: 500.00 closing in 2023, the given opening in 2024
ExampleContinuity(opening_debit) ==
    << FullRow("A", "2023", Txt1002, FALSE, <<0, 0, 0, 0, 50000, 0>>),
       FullRow("A", "2024", Txt1002, FALSE, <<opening_debit, 0, 0, 0, 0, 0>>) >>

ExampleOpenings == {50000, 49999, 49998, 48000}

ContinuityTables ==
    { <<FullRow("A", period, code, FALSE, a)>> \o c :
          period \in {"2023", "2024", "2025"}, code \in {Txt1002, NaN},
          a \in Amounts, c \in ContinuityCompanions }
    \cup
    { c \o <<FullRow("A", period, code, FALSE, a)>> :
          period \in {"2023", "2024", "2025"}, code \in {Txt1002, NaN},
          a \in Amounts, c \in ContinuityCompanions }
    \cup {ExampleContinuity(o) : o \in ExampleOpenings}

InitContinuity ==
    /\ disk \in ContinuityTables
    /\ disk0 = disk
    /\ backup = NoFile /\ balance_df = NoDf /\ pc = "idle"
    /\ adjustments_made = 0 /\ verification = NoVerification
    /\ report = FALSE /\ result = "none" /\ trace = <<>>
    /\ v_df = NoDf /\ v_pc = "idle" /\ v_results = NoResults
    /\ InitIdleClassifier /\ InitIdleArithmetic /\ InitIdleChecks

NextContinuity == ValidatorLoadData \/ ValidateYearContinuity

SpecContinuity == InitContinuity /\ [][NextContinuity]_vars

\* year continuity as the claims state it
ContinuityDone == y_pc = "done"

CodedKeys ==
    {<<v_df[i].company, v_df[i].code>> :
        i \in {i \in 1..Len(v_df) : v_df[i].code # NaN}}

RowsOf(key) ==
    {i \in 1..Len(v_df) : v_df[i].company = key[1] /\ v_df[i].code = key[2]}

\* the chosen order of each group: every row of the group once, years
\* ascending
GroupsSortedByYear ==
    /\ {y_order[g].key : g \in 1..Len(y_order)} = CodedKeys
    /\ Len(y_order) = Cardinality(CodedKeys)
    /\ \A g \in 1..Len(y_order) :
        LET rows == y_order[g].rows IN
        /\ {rows[i] : i \in 1..Len(rows)} = RowsOf(y_order[g].key)
        /\ Len(rows) = Cardinality(RowsOf(y_order[g].key))
        /\ \A i \in 2..Len(rows) : v_df[rows[i - 1]].year <= v_df[rows[i]].year

\* the adjacent pairs of consecutive years, as (group, position of the later)
ConsecutivePairs ==
    UNION { { <<g, i>> : i \in {i \in 2..Len(y_order[g].rows) :
                  v_df[y_order[g].rows[i]].year
                      = v_df[y_order[g].rows[i - 1]].year + 1} }
            : g \in 1..Len(y_order) }

Earlier(gi) == v_df[y_order[gi[1]].rows[gi[2] - 1]]
Later(gi) == v_df[y_order[gi[1]].rows[gi[2]]]

PairFails(gi) ==
    \/ Abs(Earlier(gi).closing_debit - Later(gi).opening_debit) > tolerance
    \/ Abs(Earlier(gi).closing_credit - Later(gi).opening_credit) > tolerance

PairReported(gi) ==
    \E k \in 1..Len(y_results.errors) :
        LET e == y_results.errors[k] IN
        /\ e.company = y_order[gi[1]].key[1]
        /\ e.subject_code = y_order[gi[1]].key[2]
        /\ e.prev_year = Earlier(gi).year /\ e.curr_year = Later(gi).year
        /\ e.prev_closing_debit = Earlier(gi).closing_debit
        /\ e.prev_closing_credit = Earlier(gi).closing_credit
        /\ e.curr_opening_debit = Later(gi).opening_debit
        /\ e.curr_opening_credit = Later(gi).opening_credit

\* C17: within each (company, account code) group sorted by year ascending,
\* validate_year_continuity makes one check for each adjacent pair whose
\* years differ by exactly 1 and none for any other pair; a check fails
\* exactly when the earlier closing debit and the later opening debit, or
\* the earlier closing credit and the later opening credit, differ by more
\* than 0.01, so the same net on different sides fails.
C17_OneCheckPerConsecutivePair ==
    ContinuityDone =>
        /\ GroupsSortedByYear
        /\ y_results.passed + y_results.failed = Cardinality(ConsecutivePairs)
        /\ y_results.failed = Cardinality({gi \in ConsecutivePairs : PairFails(gi)})
        /\ Len(y_results.errors) = y_results.failed
        /\ \A gi \in ConsecutivePairs : PairFails(gi) <=> PairReported(gi)

C17_Witness ==
    /\ ContinuityDone
    /\ y_results.failed = 1 /\ y_results.passed = 0
    /\ \E gi \in ConsecutivePairs :
        /\ Earlier(gi).closing_debit = 2 /\ Earlier(gi).closing_credit = 2
        /\ Later(gi).opening_debit = 0 /\ Later(gi).opening_credit = 0

\* C18 (as claimed): company A, account 1002, 2023 closing (500.00, 0.00):
\* a 2024 opening of (499.98, 0.00) is counted as passed just as (500.00,
\* 0.00) is, and an opening of (480.00, 0.00) is counted as failed.
C18_ExampleAsClaimed ==
    ContinuityDone =>
        /\ (v_df = ExampleContinuity(50000) \/ v_df = ExampleContinuity(49998)) =>
              (y_results.passed = 1 /\ y_results.failed = 0)
        /\ v_df = ExampleContinuity(48000) =>
              (y_results.passed = 0 /\ y_results.failed = 1)

\* C18 (amended): a 2024 opening of (500.00, 0.00) or (499.99, 0.00) is
\* within the tolerance of 0.01 and is counted as passed; an opening of
\* (499.98, 0.00) is off by 0.02 and is counted as failed, as (480.00, 0.00)
\* is.
C18_ExampleWithinOneCent ==
    ContinuityDone =>
        /\ (v_df = ExampleContinuity(50000) \/ v_df = ExampleContinuity(49999)) =>
              (y_results.passed = 1 /\ y_results.failed = 0)
        /\ (v_df = ExampleContinuity(49998) \/ v_df = ExampleContinuity(48000)) =>
              (y_results.passed = 0 /\ y_results.failed = 1)

C18_Witness ==
    /\ ContinuityDone
    /\ v_df = ExampleContinuity(49998)
    /\ y_results.failed = 1
    /\ y_results.errors[1].curr_opening_debit = 49998

-----------------------------------------------------------------------------
(* FinancialDataValidator.validate_voucher_reconciliation                  *)

\* int(ch) for a digit
DigitValue(ch) ==
    CASE ch = "0" -> 0 [] ch = "1" -> 1 [] ch = "2" -> 2 [] ch = "3" -> 3
      [] ch = "4" -> 4 [] ch = "5" -> 5 [] ch = "6" -> 6 [] ch = "7" -> 7
      [] ch = "8" -> 8 [] OTHER -> 9

\* astype(float).astype(int) of a text of digits
RECURSIVE ToInt(_)
ToInt(s) ==
    IF s = <<>> THEN 0
    ELSE 10 * ToInt(SubSeq(s, 1, Len(s) - 1)) + DigitValue(s[Len(s)])

\* astype(str).str.replace(',', '').astype(float).astype(int)
fiscal_year_int(cell) == ToInt(SelectSeq(PyStr(cell), LAMBDA ch : ch # ","))

\* the order of two (company, fiscal year, code) keys
SummaryKeyLess(k1, k2) ==
    \/ CharRank(k1[1]) < CharRank(k2[1])
    \/ k1[1] = k2[1] /\ TextLess(k1[2], k2[2])
    \/ k1[1] = k2[1] /\ k1[2] = k2[2] /\ TextLess(k1[3], k2[3])

\* the sum of one column over the voucher rows labelled by S
RECURSIVE voucher_sum(_, _, _)
voucher_sum(vdf, S, col) ==
    IF S = {} THEN 0
    ELSE LET i == CHOOSE i \in S : TRUE
         IN  vdf[i][col] + voucher_sum(vdf, S \ {i}, col)

\* voucher_summary: groupby(['公司', '会计年度', '科目编码']) with the two
\* sums, the keys in ascending order, rows with a blank key dropped, then
\* 会计年度 turned into an integer
voucher_summary(vdf) ==
    LET keyed == {i \in 1..Len(vdf) :
                     vdf[i].fiscal_year # NaN /\ vdf[i].code # NaN}
        KeyOf(i) == <<vdf[i].company, vdf[i].fiscal_year, vdf[i].code>>
        K == {KeyOf(i) : i \in keyed}
        keys == CHOOSE s \in Orderings(K) :
                    \A i, j \in 1..Len(s) : i < j => SummaryKeyLess(s[i], s[j])
    IN  [g \in 1..Len(keys) |->
            LET S == {i \in keyed : KeyOf(i) = keys[g]} IN
            [company |-> keys[g][1],
             fiscal_year |-> fiscal_year_int(keys[g][2]),
             code |-> keys[g][3],
             debit |-> voucher_sum(vdf, S, "debit"),
             credit |-> voucher_sum(vdf, S, "credit")]]

\* merged_df: the inner join of voucher_summary with the balance rows whose
\* code is among the voucher codes, on company and code, then the filter on
\* the years; pairs (summary row, balance row label) in the order of merge
RECURSIVE merged_rows(_, _, _)
merged_rows(summary, df, g) ==
    IF g > Len(summary) THEN <<>>
    ELSE LET voucher_subjects == {PyStr(summary[k].code) : k \in 1..Len(summary)}
             matches ==
               SelectSeq(Indices(df), LAMBDA i :
                   /\ PyStr(df[i].code) \in voucher_subjects
                   /\ df[i].company = summary[g].company
                   /\ df[i].code = summary[g].code
                   /\ \/ summary[g].fiscal_year = 2024 /\ df[i].year = 2024
                      \/ summary[g].fiscal_year = 2025 /\ df[i].year = 2025)
         IN  [m \in 1..Len(matches) |-> [voucher |-> summary[g], row |-> matches[m]]]
             \o merged_rows(summary, df, g + 1)

\* the body of the loop over merged_df: one error record and failed += 1
\* when a side differs by more than the tolerance, passed += 1 otherwise
voucher_step(results, df, m) ==
    LET row == df[m.row]
        debit_diff == Abs(m.voucher.debit - row.period_debit)
        credit_diff == Abs(m.voucher.credit - row.period_credit)
    IN  IF debit_diff > tolerance \/ credit_diff > tolerance
        THEN [results EXCEPT
                !.failed = @ + 1,
                !.errors = Append(@, [subject_code |-> row.code,
                                      subject_name |-> row.name,
                                      company |-> row.company,
                                      year |-> row.year,
                                      voucher_debit |-> m.voucher.debit,
                                      voucher_credit |-> m.voucher.credit,
                                      balance_debit |-> row.period_debit,
                                      balance_credit |-> row.period_credit,
                                      debit_difference |-> m.voucher.debit - row.period_debit,
                                      credit_difference |-> m.voucher.credit - row.period_credit])]
        ELSE [results EXCEPT !.passed = @ + 1]

RECURSIVE voucher_loop(_, _, _, _)
voucher_loop(results, df, merged, j) ==
    IF j > Len(merged) THEN results
    ELSE voucher_loop(voucher_step(results, df, merged[j]), df, merged, j + 1)

\* validate_voucher_reconciliation(): the results it returns and stores
validate_voucher_reconciliation(df, vdf) ==
    voucher_loop([passed |-> 0, failed |-> 0, errors |-> <<>>], df,
                 merged_rows(voucher_summary(vdf), df, 1), 1)

\* FinancialDataValidator.validate_voucher_reconciliation
ValidateVoucherReconciliation ==
    /\ v_pc \in {"loaded", "validated"}
    /\ k_pc = "idle"
    /\ k_results' = validate_voucher_reconciliation(v_df, k_vouchers)
    /\ k_pc' = "done"
    /\ UNCHANGED <<v_df, v_pc, v_results, k_file, k_vouchers>>
    /\ UNCHANGED <<runVars, clsVars, arVars, hVars, yVars, sVars>>

Txt6602 == <<"6", "6", "0", "2">>
FY2023 == <<"2", "0", "2", "3">>
FY2024 == <<"2", "0", "2", "4">>
FY2024Comma == <<"2", ",", "0", "2", "4">>
FY2025 == <<"2", "0", "2", "5">>

VoucherRow(company, fiscal_year, code, debit, credit) ==
    [company |-> company, fiscal_year |-> fiscal_year, code |-> code,
     debit |-> debit, credit |-> credit]

\* the voucher tables: one year written plainly, with a comma, and in both
\* ways; another year; another company; a row with a blank code
VoucherTables ==
    { << VoucherRow("B", FY2024, Txt6602, 1, 0),
         VoucherRow("B", FY2024, Txt6602, 1, 0) >>,
      << VoucherRow("B", FY2024Comma, Txt6602, 1, 0),
         VoucherRow("B", FY2024Comma, Txt6602, 0, 1) >>,
      << VoucherRow("B", FY2024, Txt6602, 2, 0),
         VoucherRow("B", FY2024Comma, Txt6602, 2, 0) >>,
      << VoucherRow("B", FY2025, Txt6602, 1, 0),
         VoucherRow("B", FY2024, Txt6602, 0, 3) >>,
      << VoucherRow("B", FY2023, Txt6602, 1, 0) >>,
      << VoucherRow("A", FY2024, Txt6602, 3, 0),
         VoucherRow("B", FY2024, Txt6601, 3, 0) >>,
      << VoucherRow("B", FY2024, NaN, 3, 0),
         VoucherRow("B", FY2024, Txt6602, 0, 0) >> }

\* the rows put beside the generated balance row: none, a dimension row of
\* the same account, an account no voucher is posted to
VoucherCompanions ==
    { <<>>,
      << FullRow("B", "2024", Txt6602, TRUE, <<0, 0, 1, 0, 1, 0>>) >>,
      << FullRow("B", "2024", Txt1001, FALSE, <<0, 0, 3, 0, 3, 0>>) >> }

\* company B, account 6602, fiscal year 2024: vouchers of 12000.00 debit in
\* all, and a balance row with the given period debit
ExampleVouchers ==
    << VoucherRow("B", FY2024, Txt6602, 700000, 0),
       VoucherRow("B", FY2024, Txt6602, 500000, 0) >>

ExampleBalance(period_debit) ==
    << FullRow("B", "2024", Txt6602, FALSE, <<0, 0, period_debit, 0, 0, 0>>) >>

\* the pairs (balance table, voucher table) the validator starts from
VoucherInputs ==
    { << <<FullRow("B", period, Txt6602, FALSE, a)>> \o c, v >> :
          period \in {"2023", "2024"}, a \in Amounts,
          c \in VoucherCompanions, v \in VoucherTables }
    \cup { <<ExampleBalance(d), ExampleVouchers>> : d \in {1200000, 1150000} }

InitVoucher ==
    /\ \E input \in VoucherInputs : disk = input[1] /\ k_file = input[2]
    /\ disk0 = disk
    /\ backup = NoFile /\ balance_df = NoDf /\ pc = "idle"
    /\ adjustments_made = 0 /\ verification = NoVerification
    /\ report = FALSE /\ result = "none" /\ trace = <<>>
    /\ v_df = NoDf /\ v_pc = "idle" /\ v_results = NoResults
    /\ k_vouchers = NoDf /\ k_pc = "idle" /\ k_results = <<>>
    /\ InitIdleClassifier /\ InitIdleArithmetic
    /\ InitIdleHierarchy /\ InitIdleContinuity
    /\ InitIdleRunAll /\ InitIdleServer

NextVoucher == ValidatorLoadData \/ ValidateVoucherReconciliation

SpecVoucher == InitVoucher /\ [][NextVoucher]_vars

\* voucher reconciliation as the claims state it
VoucherDone == k_pc = "done"

\* the fiscal year a voucher row belongs to, whichever way it is written
FiscalYear(v) == ToInt(SelectSeq(v.fiscal_year, LAMBDA ch : ch \in
    {"0", "1", "2", "3", "4", "5", "6", "7", "8", "9"}))

\* the voucher rows of one company, fiscal year and account code
VouchersOf(company, year, code) ==
    {j \in 1..Len(k_vouchers) :
        /\ k_vouchers[j].company = company
        /\ k_vouchers[j].code = code /\ code # NaN
        /\ k_vouchers[j].fiscal_year # NaN
        /\ FiscalYear(k_vouchers[j]) = year}

RECURSIVE VoucherTotal(_, _)
VoucherTotal(S, col) ==
    IF S = {} THEN 0
    ELSE LET j == CHOOSE j \in S : TRUE
         IN  k_vouchers[j][col] + VoucherTotal(S \ {j}, col)

\* the balance rows joined to a voucher aggregate of their company, code
\* and year
JoinedRows ==
    {i \in 1..Len(v_df) :
        VouchersOf(v_df[i].company, v_df[i].year, v_df[i].code) # {}}

RowVouchers(i) == VouchersOf(v_df[i].company, v_df[i].year, v_df[i].code)

RowMismatch(i) ==
    \/ Abs(VoucherTotal(RowVouchers(i), "debit") - v_df[i].period_debit) > tolerance
    \/ Abs(VoucherTotal(RowVouchers(i), "credit") - v_df[i].period_credit) > tolerance

\* C19: validate_voucher_reconciliation sums voucher debit and credit per
\* (company, fiscal year, account code) and counts, for each joined balance
\* row, one check that fails exactly when the voucher debit sum and the
\* period debit, or the voucher credit sum and the period credit, differ by
\* more than 0.01; a balance row whose code is in no voucher row is never
\* checked.
C19_OneCheckPerJoinedRow ==
    VoucherDone =>
        /\ k_results.passed + k_results.failed = Cardinality(JoinedRows)
        /\ k_results.failed = Cardinality({i \in JoinedRows : RowMismatch(i)})
        /\ Len(k_results.errors) = k_results.failed
        /\ \A k \in 1..Len(k_results.errors) :
            \E i \in JoinedRows :
                LET e == k_results.errors[k] IN
                /\ RowMismatch(i)
                /\ e.company = v_df[i].company /\ e.subject_code = v_df[i].code
                /\ e.year = v_df[i].year
                /\ e.voucher_debit = VoucherTotal(RowVouchers(i), "debit")
                /\ e.voucher_credit = VoucherTotal(RowVouchers(i), "credit")
                /\ e.balance_debit = v_df[i].period_debit
                /\ e.balance_credit = v_df[i].period_credit

\* C20: company B, account 6602, fiscal year 2024, vouchers summing to
\* (12000.00, 0.00): a balance row with period debit 11500.00 fails and the
\* recorded debit difference is -500.00; a balance row with period debit
\* 12000.00 passes.
C20_ExampleDifference ==
    (VoucherDone /\ k_vouchers = ExampleVouchers) =>
        /\ v_df = ExampleBalance(1200000) =>
              (k_results.passed = 1 /\ k_results.failed = 0)
        /\ v_df = ExampleBalance(1150000) =>
              /\ k_results.passed = 0 /\ k_results.failed = 1
              /\ Len(k_results.errors) = 1
              /\ k_results.errors[1].debit_difference = -50000

-----------------------------------------------------------------------------
(* The adjuster's run and the validator's passes side by side              *)

\* balance tables with a row the adjuster rewrites, a parent with a child
\* and a dimension row, and two years of one account
PassTables ==
    { << FullRow("B", "2024", Txt6602, FALSE, <<1, 0, 2, 0, 3, 0>>),
         FullRow("B", "2024", Txt6602 \o Sub01, FALSE, <<0, 0, 1, 0, 3, 0>>),
         FullRow("B", "2024", Txt6602, TRUE, <<1, 0, 2, 0, 3, 0>>) >>,
      << FullRow("A", "2023", Txt1002, FALSE, <<0, 0, 0, 0, 2, 2>>),
         FullRow("A", "2024", Txt1002, FALSE, <<3, 0, 0, 0, 0, 0>>) >>,
      << FullRow("B", "2024", Txt6602, FALSE, <<0, 0, 2, 0, 2, 0>>),
         FullRow("B", "2025", Txt6602, FALSE, <<0, 0, 1, 0, 0, 0>>),
         FullRow("B", "2025", Txt9999, FALSE, <<0, 0, 1, 0, 0, 0>>) >> }

PassVouchers ==
    { << VoucherRow("B", FY2024, Txt6602, 1, 0),
         VoucherRow("B", FY2024Comma, Txt6602, 1, 0) >>,
      << VoucherRow("B", FY2025, Txt6602, 3, 0),
         VoucherRow("A", FY2024, Txt1002, 0, 0) >> }

InitPasses ==
    /\ disk \in PassTables
    /\ k_file \in PassVouchers
    /\ disk0 = disk
    /\ backup = NoFile /\ balance_df = NoDf /\ pc = "start"
    /\ adjustments_made = 0 /\ verification = NoVerification
    /\ report = FALSE /\ result = "none" /\ trace = <<>>
    /\ v_df = NoDf /\ v_pc = "idle" /\ v_results = NoResults
    /\ k_vouchers = NoDf /\ k_pc = "idle" /\ k_results = <<>>
    /\ InitIdleClassifier /\ InitIdleArithmetic
    /\ InitIdleHierarchy /\ InitIdleContinuity
    /\ InitIdleRunAll /\ InitIdleServer

NextPasses ==
    \/ LoadData \/ AdjustOpeningBalances \/ VerifyAdjustments \/ SaveAdjustedData
    \/ ValidatorLoadData \/ ValidateAccountingEquation \/ ValidateYearContinuity
    \/ ValidateHierarchyCorrectness \/ ValidateVoucherReconciliation

SpecPasses == InitPasses /\ [][NextPasses]_vars

\* C13: no validation pass writes to the data: once loaded, the validator's
\* balance and voucher tables are the same after every step, whichever of
\* validate_accounting_equation, validate_year_continuity,
\* validate_hierarchy_correctness and validate_voucher_reconciliation runs;
\* the adjuster's table changes in the adjust_opening_balances step only,
\* so verify_adjustments leaves it as it is.
C13_OnlyAdjustWrites ==
    [][ /\ ((\E k \in 1..Len(trace) : trace[k] = "read_csv")
                /\ balance_df' # balance_df) =>
              (pc = "loaded" /\ trace' = Append(trace, "adjust"))
        /\ v_pc \in {"loaded", "validated"} =>
              (v_df' = v_df /\ k_vouchers' = k_vouchers) ]_vars

C13_Witness ==
    /\ AfterAdjust /\ balance_df # disk0
    /\ \E k \in 1..Len(trace) : trace[k] = "verify"
    /\ verification.passed > 0
    /\ v_pc = "validated" /\ h_pc = "done" /\ y_pc = "done" /\ k_pc = "done"
    /\ v_df = disk0 /\ k_vouchers = k_file
    /\ v_results.passed + v_results.failed > 0
    /\ h_results.passed + h_results.failed > 0
    /\ k_results.passed + k_results.failed > 0

\* C21: a voucher aggregate and a balance row of the same company and
\* account code are compared exactly when the voucher's fiscal year equals
\* the balance row's year: every balance row with vouchers of its own year
\* is checked, whatever the year, and nothing is checked across years.
C21_ComparedExactlyWhenYearsAgree ==
    VoucherDone =>
        /\ k_results.passed + k_results.failed >= Cardinality(JoinedRows)
        /\ JoinedRows = {} => k_results.passed + k_results.failed = 0
        /\ \A k \in 1..Len(k_results.errors) :
            LET e == k_results.errors[k] IN
            VouchersOf(e.company, e.year, e.subject_code) # {}

TotalRows == {i \in JoinedRows : ~v_df[i].is_dimension_row}

\* C28: validate_voucher_reconciliation compares a voucher aggregate with
\* the account's own total row only: the dimension rows that share the
\* account code are not compared with the whole account's voucher sums, so
\* an account whose total row matches its vouchers yields no failure.
C28_OnlyTotalRowCompared ==
    (VoucherDone /\ \A i \in TotalRows : ~RowMismatch(i)) =>
        k_results.failed = 0

\* the pairs of rows of one company, account code and dimension in
\* consecutive years
LikePairs ==
    {ij \in (1..Len(v_df)) \X (1..Len(v_df)) :
        /\ v_df[ij[1]].code # NaN
        /\ v_df[ij[1]].company = v_df[ij[2]].company
        /\ v_df[ij[1]].code = v_df[ij[2]].code
        /\ v_df[ij[1]].dimension = v_df[ij[2]].dimension
        /\ v_df[ij[2]].year = v_df[ij[1]].year + 1}

\* C27: validate_year_continuity compares like with like: when a group
\* holds several rows of one year (the total row and dimension rows), each
\* row is checked against the next year's row of the same dimension, every
\* such pair is checked, and no row is compared with another dimension's.
C27_LikeWithLike ==
    ContinuityDone =>
        /\ y_results.passed + y_results.failed = Cardinality(LikePairs)
        /\ \A gi \in ConsecutivePairs :
            Earlier(gi).dimension = Later(gi).dimension

-----------------------------------------------------------------------------
(* Claims about the order of the steps of one run_adjustment               *)

Steps(name) == {k \in 1..Len(trace) : trace[k] = name}

\* C24: inside one run_adjustment the balance file is overwritten at most
\* once, and only after a backup of the content the run started from was
\* made, adjust_opening_balances reported at least one adjustment and
\* verify_adjustments counted no failure, in that order; the adjustment
\* report is written only after the file was overwritten.
C24_OverwriteAfterBackupAdjustVerify ==
    /\ Cardinality(Steps("to_csv")) <= 1
    /\ disk # disk0 => Steps("to_csv") # {}
    /\ \A w \in Steps("to_csv") :
        /\ \E b \in Steps("backup") : \E a \in Steps("adjust") :
           \E v \in Steps("verify") : b < a /\ a < v /\ v < w
        /\ backup = disk0
        /\ adjustments_made >= 1
        /\ verification # NoVerification
        /\ ~verification.raised /\ verification.failed = 0
    /\ \A r \in Steps("report") : \E w \in Steps("to_csv") : w < r
    /\ report => Steps("report") # {}

\* a run that overwrote the file with adjusted rows and wrote its report
C24_Witness ==
    /\ pc = "done" /\ report /\ disk # disk0
    /\ Steps("to_csv") # {} /\ Steps("report") # {}
-----------------------------------------------------------------------------
(* Claims about verify_adjustments                                         *)

Verified == Steps("verify") # {}

ScopedRows == {i \in 1..Len(balance_df) : InScope(balance_df[i])}

\* C25: verify_adjustments judges every in-scope row from its own six
\* amounts, a row of unknown type on debit-normal nets of its own fields,
\* so the counts do not depend on earlier rows or on the row's position,
\* and the check never raises.
C25_EveryRowJudgedOnOwnAmounts ==
    Verified =>
        /\ ~verification.raised
        /\ verification.passed =
            Cardinality({i \in ScopedRows : SatisfiesIdentity(balance_df[i])})
        /\ verification.failed =
            Cardinality({i \in ScopedRows : ~SatisfiesIdentity(balance_df[i])})
-----------------------------------------------------------------------------
(* Claims about repeated adjustment                                        *)

\* adjust_opening_balances applied to the table its first run produced
SecondRun == adjust_opening_balances(balance_df)

\* C26: adjust_opening_balances is idempotent: a second run on the table
\* the first run produced reports zero adjustments and changes no field
\* of any row, whatever the initial table was.
C26_AdjustIsIdempotent ==
    AfterAdjust =>
        /\ SecondRun.adjustments_made = 0
        /\ SecondRun.df = balance_df

\* a first run that rewrote at least one row
C26_Witness ==
    /\ AfterAdjust
    /\ adjustments_made >= 1
    /\ \E i \in 1..Len(balance_df) : balance_df[i] # disk0[i]
-----------------------------------------------------------------------------
(* FinancialDataValidator.run_all_validations                              *)

\* the list "validations", by the names of the methods
validations ==
    << "validate_accounting_equation", "validate_year_continuity",
       "validate_hierarchy_correctness", "validate_voucher_reconciliation" >>

\* what validation_func() returns when it does not raise
validation_result(name, df, vdf, groups) ==
    CASE name = "validate_accounting_equation" ->
             validate_accounting_equation(df)
      [] name = "validate_year_continuity" ->
             validate_year_continuity(df, groups)
      [] name = "validate_hierarchy_correctness" ->
             validate_hierarchy_correctness(df).results
      [] OTHER -> validate_voucher_reconciliation(df, vdf)

\* the loop with a "break" in its except clause: the first validation that
\* raises ends it
RECURSIVE run_all_loop_stopping(_, _, _, _, _, _)
run_all_loop_stopping(acc, i, df, vdf, groups, raises) ==
    IF i > Len(validations) THEN acc
    ELSE LET name == validations[i]
             returned == validation_result(name, df, vdf, groups)
         IN  IF name \in raises
             THEN [acc EXCEPT !.calls = Append(@, name)]
             ELSE run_all_loop_stopping(
                      [calls |-> Append(acc.calls, name),
                       overall |->
                         [total_passed |-> acc.overall.total_passed + returned.passed,
                          total_failed |-> acc.overall.total_failed + returned.failed,
                          details |-> Append(acc.overall.details,
                                             [name |-> name, result |-> returned])]],
                      i + 1, df, vdf, groups, raises)

\* the loop over validations: a validation that raises is logged and adds
\* nothing; one that returns adds its counts and its entry in details (a
\* dict, kept here in insertion order)
RECURSIVE run_all_loop(_, _, _, _, _, _)
run_all_loop(acc, i, df, vdf, groups, raises) ==
    IF i > Len(validations) THEN acc
    ELSE LET name == validations[i]
             returned == validation_result(name, df, vdf, groups)
         IN  run_all_loop(
                 IF name \in raises
                 THEN [acc EXCEPT !.calls = Append(@, name)]
                 ELSE [calls |-> Append(acc.calls, name),
                       overall |->
                         [total_passed |-> acc.overall.total_passed + returned.passed,
                          total_failed |-> acc.overall.total_failed + returned.failed,
                          details |-> Append(acc.overall.details,
                                             [name |-> name, result |-> returned])]],
                 i + 1, df, vdf, groups, raises)

\* run_all_validations: load_data when a table is still None (a raise of
\* load_data leaves the method), the loop, then _generate_report, which
\* may raise on its files; each validation stores its results before it
\* returns them
RunAllValidations ==
    /\ r_pc = "idle"
    /\ \E load \in {"ok", "raises"} : \E report_written \in BOOLEAN :
       \E raises \in SUBSET {validations[i] : i \in 1..Len(validations)} :
        LET needs_load == v_pc \in {"idle", "failed"}
            df == IF needs_load THEN disk ELSE v_df
            vdf == IF needs_load THEN k_file ELSE k_vouchers
        IN  IF needs_load /\ load = "raises"
            THEN /\ r_pc' = "raised" /\ v_pc' = "failed"
                 /\ raises = {} /\ report_written
                 /\ UNCHANGED <<r_calls, r_raised, r_overall, v_df, v_results,
                                h_pc, h_trees, h_results, y_pc, y_order,
                                y_results, k_vouchers, k_pc, k_results>>
            ELSE \E groups \in sorted_groups(df, continuity_keys(df)) :
                 LET zero == [calls |-> <<>>,
                              overall |-> [total_passed |-> 0,
                                           total_failed |-> 0,
                                           details |-> <<>>]]
                     out == run_all_loop(zero, 1, df, vdf, groups, raises)
                     ran(name) == name \notin raises
                 IN  /\ load = "ok"
                     /\ v_df' = df /\ k_vouchers' = vdf
                     /\ v_pc' = IF ran(validations[1]) THEN "validated"
                                ELSE "loaded"
                     /\ v_results' = IF ran(validations[1])
                                     THEN validate_accounting_equation(df)
                                     ELSE v_results
                     /\ y_pc' = IF ran(validations[2]) THEN "done" ELSE y_pc
                     /\ y_order' = IF ran(validations[2]) THEN groups ELSE y_order
                     /\ y_results' = IF ran(validations[2])
                                     THEN validate_year_continuity(df, groups)
                                     ELSE y_results
                     /\ h_pc' = IF ran(validations[3]) THEN "done" ELSE h_pc
                     /\ h_trees' = IF ran(validations[3])
                                   THEN validate_hierarchy_correctness(df).trees
                                   ELSE h_trees
                     /\ h_results' = IF ran(validations[3])
                                     THEN validate_hierarchy_correctness(df).results
                                     ELSE h_results
                     /\ k_pc' = IF ran(validations[4]) THEN "done" ELSE k_pc
                     /\ k_results' = IF ran(validations[4])
                                     THEN validate_voucher_reconciliation(df, vdf)
                                     ELSE k_results
                     /\ r_calls' = out.calls
                     /\ r_raised' = raises
                     /\ r_overall' = IF report_written THEN out.overall ELSE <<>>
                     /\ r_pc' = IF report_written THEN "returned" ELSE "raised"
    /\ UNCHANGED <<runVars, clsVars, arVars, k_file, mVars>>

InitRunAll ==
    /\ disk \in PassTables
    /\ k_file \in PassVouchers
    /\ disk0 = disk
    /\ backup = NoFile /\ balance_df = NoDf /\ pc = "idle"
    /\ adjustments_made = 0 /\ verification = NoVerification
    /\ report = FALSE /\ result = "none" /\ trace = <<>>
    /\ v_df = NoDf /\ v_pc = "idle" /\ v_results = NoResults
    /\ k_vouchers = NoDf /\ k_pc = "idle" /\ k_results = <<>>
    /\ InitIdleClassifier /\ InitIdleArithmetic
    /\ InitIdleHierarchy /\ InitIdleContinuity
    /\ InitIdleRunAll /\ InitIdleServer

NextRunAll == ValidatorLoadData \/ RunAllValidations

SpecRunAll == InitRunAll /\ [][NextRunAll]_vars

\* the entries of details, and the counts summed over them
Details == r_overall.details

RECURSIVE DetailSum(_, _)
DetailSum(k, col) ==
    IF k = 0 THEN 0 ELSE Details[k].result[col] + DetailSum(k - 1, col)

Returned(name) == name \notin r_raised

\* the results the validation stored on the validator
Stored(name) ==
    CASE name = "validate_accounting_equation" -> v_results
      [] name = "validate_year_continuity" -> y_results
      [] name = "validate_hierarchy_correctness" -> h_results
      [] OTHER -> k_results

\* C23: run_all_validations calls the four checks in the fixed order
\* identity, continuity, hierarchy, voucher; neither a finding nor a check
\* that raises stops the remaining checks; details holds exactly the
\* checks that returned, each with the results it produced, and
\* total_passed and total_failed are the sums over the entries of details.
C23_AllFourRunAndTotalsAreSums ==
    /\ r_calls # <<>> => r_calls = validations
    /\ r_pc = "returned" =>
        /\ [k \in 1..Len(Details) |-> Details[k].name]
             = SelectSeq(validations, Returned)
        /\ \A k \in 1..Len(Details) :
             Details[k].result = Stored(Details[k].name)
        /\ r_overall.total_passed = DetailSum(Len(Details), "passed")
        /\ r_overall.total_failed = DetailSum(Len(Details), "failed")

\* a run in which the first check raised, a later check had findings, and
\* the checks after both were still run and recorded
C23_Witness ==
    /\ r_pc = "returned"
    /\ r_raised = {"validate_accounting_equation"}
    /\ Len(Details) = 3
    /\ Details[1].result.failed > 0
    /\ Details[3].name = "validate_voucher_reconciliation"
    /\ r_overall.total_failed + r_overall.total_passed > Details[1].result.failed
-----------------------------------------------------------------------------
(* The query server: financial_data_mcp                                    *)

\* s.find(sub) >= 0
Contains(s, sub) ==
    \E k \in 0..(Len(s) - Len(sub)) : SubSeq(s, k + 1, k + Len(sub)) = sub

\* load_csv_with_optimization for the balance file: read_csv, then the
\* code column through astype(str)
load_balance_csv(rows) ==
    [i \in 1..Len(rows) |-> [rows[i] EXCEPT !.code = PyStr(@)]]

\* load_csv_with_optimization for the voucher file
load_voucher_csv(rows) ==
    [i \in 1..Len(rows) |-> [rows[i] EXCEPT !.code = PyStr(@)]]

\* a load_data that reads both files on every call
load_data_always_reading(files, balance, voucher) ==
    IF ~files.balance.exists
    THEN [balance_df |-> balance, voucher_df |-> voucher, reads |-> {},
          raised |-> TRUE]
    ELSE LET b == [loaded |-> TRUE, rows |-> load_balance_csv(files.balance.rows)]
         IN  IF ~files.voucher.exists
             THEN [balance_df |-> b, voucher_df |-> voucher,
                   reads |-> {"balance"}, raised |-> TRUE]
             ELSE [balance_df |-> b,
                   voucher_df |-> [loaded |-> TRUE,
                                   rows |-> load_voucher_csv(files.voucher.rows)],
                   reads |-> {"balance", "voucher"}, raised |-> FALSE]

\* load_data: each table is read only while its global is None; a missing
\* file raises FileNotFoundError, after the balance table was assigned
\* when it is the voucher file that is missing
load_data(files, balance, voucher) ==
    IF ~balance.loaded /\ ~files.balance.exists
    THEN [balance_df |-> balance, voucher_df |-> voucher, reads |-> {},
          raised |-> TRUE]
    ELSE LET b == IF balance.loaded THEN balance
                  ELSE [loaded |-> TRUE,
                        rows |-> load_balance_csv(files.balance.rows)]
             reads == IF balance.loaded THEN {} ELSE {"balance"}
         IN  IF ~voucher.loaded /\ ~files.voucher.exists
             THEN [balance_df |-> b, voucher_df |-> voucher, reads |-> reads,
                   raised |-> TRUE]
             ELSE [balance_df |-> b,
                   voucher_df |-> IF voucher.loaded THEN voucher
                                  ELSE [loaded |-> TRUE,
                                        rows |-> load_voucher_csv(files.voucher.rows)],
                   reads |-> IF voucher.loaded THEN reads
                             ELSE reads \cup {"voucher"},
                   raised |-> FALSE]

\* the path value of a subject_path filter, a slash added at either end
\* where there is none
path_value(value) ==
    LET head == IF StartsWith(value, "/") THEN value ELSE <<"/">> \o value
    IN  IF head[Len(head)] = "/" THEN head ELSE head \o <<"/">>

\* filter_dataframe on a copy of df: the rows whose path contains the path
\* value (a NaN path never does), whose company contains the company given
\* (the companies are single letters) and whose year is the year given; a
\* filter without a value is skipped
filter_dataframe(df, filters) ==
    SelectSeq(df, LAMBDA row :
        /\ filters.subject_path # NoArg =>
              row.path # NaN /\ Contains(row.path, path_value(filters.subject_path))
        /\ filters.company # "" => row.company = filters.company
        /\ filters.year # 0 => row.year = filters.year)

TextContent(kind) == [returned |-> TRUE, kind |-> kind, exception |-> "none"]

Raises(exception) == [returned |-> FALSE, kind |-> "raised", exception |-> exception]

\* the loop over the rows of result: its body reads df.columns[3], and df
\* is neither a local of the function nor a name of the module, so the
\* first row raises NameError; the report is returned after the loop
hierarchy_detail_loop(matched) ==
    IF Len(matched) = 0 THEN TextContent("report") ELSE Raises("NameError")

\* analyze_subject_hierarchy
analyze_subject_hierarchy(balance, args) ==
    IF args.subject_code = NoArg THEN Raises("KeyError")
    ELSE LET matched ==
               filter_dataframe(balance,
                   [subject_path |-> <<"/">> \o args.subject_code \o <<"/">>,
                    company |-> args.company, year |-> args.year])
         IN  IF Len(matched) = 0 THEN TextContent("not_found")
             ELSE hierarchy_detail_loop(matched)

ToolNames ==
    {"query_balance_sheet", "query_voucher_details", "analyze_subject_hierarchy",
     "get_financial_summary", "search_transactions", "validate_data_consistency",
     "find_subject_by_name", "query_dimension_details"}

\* the dispatch of handle_call_tool; the seven other handlers read the
\* cached tables through filter_dataframe and return their text, or raise
\* on their arguments
dispatch(name, arguments, balance, handler_raises) ==
    IF name = "analyze_subject_hierarchy"
    THEN analyze_subject_hierarchy(balance, arguments)
    ELSE IF name \in ToolNames
         THEN IF handler_raises THEN Raises("Exception") ELSE TextContent("text")
         ELSE Raises("ValueError")

\* the message the except clause returns
error_text(exception) == [returned |-> TRUE, kind |-> "error", exception |-> exception]

\* handle_call_tool with load_data called before the try statement
handle_call_tool_load_outside_try(name, arguments, files, balance, voucher, handler_raises) ==
    LET loaded == load_data(files, balance, voucher)
        out == dispatch(name, arguments, loaded.balance_df.rows, handler_raises)
    IN  [balance_df |-> loaded.balance_df, voucher_df |-> loaded.voucher_df,
         reads |-> loaded.reads,
         response |-> IF loaded.raised THEN Raises("FileNotFoundError")
                      ELSE IF out.returned THEN out
                      ELSE error_text(out.exception)]

\* handle_call_tool: load_data and the dispatch inside one try statement
\* whose except clause returns the error message as text
handle_call_tool(name, arguments, files, balance, voucher, handler_raises) ==
    LET loaded == load_data(files, balance, voucher)
        out == dispatch(name, arguments, loaded.balance_df.rows, handler_raises)
    IN  [balance_df |-> loaded.balance_df, voucher_df |-> loaded.voucher_df,
         reads |-> loaded.reads,
         response |-> IF loaded.raised THEN error_text("FileNotFoundError")
                      ELSE IF out.returned THEN out
                      ELSE error_text(out.exception)]

Path1001_01 ==
    <<"/", "1", "0", "0", "1", "/", "1", "0", "0", "1", ".", "0", "1", "/">>

ServerRow(company, period, code, path, a) ==
    [FullRow(company, period, code, FALSE, a) EXCEPT !.path = path]

\* balance files: a child written before its parent with a row of another
\* account, and a file whose only coded path is another account's
ServerBalanceFiles ==
    { << ServerRow("A", "2024", Txt1001 \o Sub01, Path1001_01, <<0, 0, 1, 0, 1, 0>>),
         ServerRow("A", "2024", Txt1001, Path1001, <<0, 0, 1, 0, 1, 0>>),
         ServerRow("B", "2023", Txt2202, Path2202, <<0, 0, 0, 2, 0, 2>>) >>,
      << ServerRow("B", "2024", Txt2202, Path2202, <<0, 0, 0, 1, 0, 1>>),
         ServerRow("B", "2024", NaN, NaN, <<0, 0, 0, 1, 0, 1>>) >> }

ServerVoucherFiles ==
    { << VoucherRow("A", FY2024, Txt1001, 1, 0) >> }

FileStates(tables) ==
    {AbsentFile} \cup {[exists |-> TRUE, rows |-> t] : t \in tables}

\* the arguments of the calls: no subject code, a code alone, a code with
\* a company and a year that match, a code with a company that does not
\* match, a code no path contains
Arguments ==
    { [subject_code |-> NoArg, company |-> "", year |-> 0],
      [subject_code |-> Txt1001, company |-> "", year |-> 0],
      [subject_code |-> Txt1001, company |-> "A", year |-> 2024],
      [subject_code |-> Txt2202, company |-> "", year |-> 0],
      [subject_code |-> Txt2202, company |-> "A", year |-> 0],
      [subject_code |-> Txt9999, company |-> "", year |-> 0] }

InitServer ==
    /\ m_files \in [balance : FileStates(ServerBalanceFiles),
                    voucher : FileStates(ServerVoucherFiles)]
    /\ m_balance_df = NotCached
    /\ m_voucher_df = NotCached
    /\ m_request = NoRequest /\ m_response = NoResponse /\ m_reads = {}
    /\ m_failed = FALSE
    /\ disk = <<>> /\ disk0 = disk
    /\ backup = NoFile /\ balance_df = NoDf /\ pc = "idle"
    /\ adjustments_made = 0 /\ verification = NoVerification
    /\ report = FALSE /\ result = "none" /\ trace = <<>>
    /\ InitIdleValidator /\ InitIdleClassifier /\ InitIdleArithmetic
    /\ InitIdleHierarchy /\ InitIdleContinuity /\ InitIdleVoucher
    /\ InitIdleRunAll

\* one tool call, from the request to the response
HandleCallTool ==
    /\ \E name \in ToolNames \cup {"no_such_tool"} :
       \E arguments \in Arguments : \E handler_raises \in BOOLEAN :
        LET out == handle_call_tool(name, arguments, m_files, m_balance_df,
                                    m_voucher_df, handler_raises)
        IN  /\ m_request' = [name |-> name, arguments |-> arguments]
            /\ m_balance_df' = out.balance_df
            /\ m_voucher_df' = out.voucher_df
            /\ m_reads' = out.reads
            /\ m_response' = out.response
            /\ m_failed' = (m_failed \/ m_response.kind \in {"error", "raised"})
    /\ UNCHANGED <<m_files, runVars, valVars, clsVars, arVars, hVars, yVars,
                   kVars, rVars>>

\* the data directory changes under the running server: a file is
\* written, replaced or removed
FilesChange ==
    /\ \E files \in [balance : FileStates(ServerBalanceFiles),
                     voucher : FileStates(ServerVoucherFiles)] :
        /\ files # m_files
        /\ m_files' = files
    /\ UNCHANGED <<m_balance_df, m_voucher_df, m_request, m_response, m_reads,
                   m_failed>>
    /\ UNCHANGED <<runVars, valVars, clsVars, arVars, hVars, yVars, kVars, rVars>>

NextServer == HandleCallTool \/ FilesChange

SpecServer == InitServer /\ [][NextServer]_vars

-----------------------------------------------------------------------------
(* Claims about the query server                                           *)

\* a step that served a tool call (a repeated call that changes nothing is
\* a stuttering step)
Served ==
    <<m_request, m_response, m_reads, m_failed, m_balance_df, m_voucher_df>>'
        # <<m_request, m_response, m_reads, m_failed, m_balance_df, m_voucher_df>>

\* C22: the server's tables are a lazily initialised immutable snapshot:
\* load_data reads a table only while it is not yet cached, a cached table
\* is never reloaded or replaced, and no tool call, in any order and
\* whatever happens to the files, changes a cached table.
C22_CachedTablesNeverChange ==
    [][ /\ m_balance_df.loaded => m_balance_df' = m_balance_df
        /\ m_voucher_df.loaded => m_voucher_df' = m_voucher_df
        /\ Served =>
            /\ "balance" \in m_reads' <=>
                 (~m_balance_df.loaded /\ m_balance_df'.loaded)
            /\ "voucher" \in m_reads' <=>
                 (~m_voucher_df.loaded /\ m_voucher_df'.loaded)
            /\ "balance" \in m_reads' =>
                 m_balance_df'.rows = load_balance_csv(m_files.balance.rows)
            /\ "voucher" \in m_reads' =>
                 m_voucher_df'.rows = load_voucher_csv(m_files.voucher.rows)
      ]_vars

\* both tables cached, the balance file since replaced or removed, and the
\* last call served from the cache without reading a file
C22_Witness ==
    /\ m_balance_df.loaded /\ m_voucher_df.loaded
    /\ \/ ~m_files.balance.exists
       \/ load_balance_csv(m_files.balance.rows) # m_balance_df.rows
    /\ m_reads = {}
    /\ m_response.kind \in {"text", "not_found"}

Called == m_request # NoRequest

\* C29: handle_call_tool never raises: for every tool name and argument
\* set it returns a text response, the error message when the tool is
\* unknown, the data cannot be loaded or the handler raised; and a call
\* that failed does not keep a later call from being served.
C29_AlwaysReturnsText ==
    Called =>
        /\ m_response.returned
        /\ m_response.kind \in {"text", "report", "not_found", "error"}
        /\ m_request.name \notin ToolNames => m_response.kind = "error"
        /\ (~m_balance_df.loaded \/ ~m_voucher_df.loaded) <=>
              (m_response.kind = "error"
                 /\ m_response.exception = "FileNotFoundError")
        /\ (/\ m_balance_df.loaded /\ m_voucher_df.loaded
            /\ m_request.name \in ToolNames \ {"analyze_subject_hierarchy"})
              => m_response.kind \in {"text", "error"}

\* a call served with its text after an earlier call had failed on a
\* missing file
C29_Witness ==
    /\ Called /\ m_failed
    /\ m_response.kind \in {"text", "not_found"}

\* the rows of the cached balance table whose path contains /code/
Matching(arguments) ==
    {i \in 1..Len(m_balance_df.rows) :
        /\ m_balance_df.rows[i].path # NaN
        /\ Contains(m_balance_df.rows[i].path,
                    <<"/">> \o arguments.subject_code \o <<"/">>)
        /\ arguments.company # "" =>
              m_balance_df.rows[i].company = arguments.company
        /\ arguments.year # 0 => m_balance_df.rows[i].year = arguments.year}

\* C30: analyze_subject_hierarchy called through handle_call_tool with a
\* subject code whose path prefix /code/ matches at least one balance row
\* returns the hierarchy report and not an error message; only when no
\* row matches does it return the not-found message.
C30_MatchingCodeGetsReport ==
    (/\ Called
     /\ m_request.name = "analyze_subject_hierarchy"
     /\ m_request.arguments.subject_code # NoArg
     /\ m_balance_df.loaded /\ m_voucher_df.loaded)
        => m_response.kind = IF Matching(m_request.arguments) # {}
                             THEN "report" ELSE "not_found"
=============================================================================
